---- MODULE Spec2Model ----
(***************************************************************************)
(* Model of git-branchless' fast in-memory rewrite engine                  *)
(* (Repo::cherry_pick_fast, Repo::amend_fast in git/repo.rs) and of the    *)
(* smartlog graph builder (commands/smartlog.rs).                          *)
(*                                                                         *)
(* Trees are flat maps from repository paths to optional entries.  An      *)
(* Option<T> of the source is a sequence of length at most one: None is    *)
(* <<>> and Some(x) is <<x>>.                                              *)
(***************************************************************************)
EXTENDS Integers, Sequences, FiniteSets, TLC

\* Largest blob OID of the model; OID 0 is MaybeZeroOid::Zero.
MaxOid == 2

Paths == {"initial.txt", "test1.txt"}

\* FileMode values carried by tree and index entries.
FileModes == {"Blob", "BlobExecutable"}

NonZeroOids == 1..MaxOid

None == <<>>

Some(x) == <<x>>

\* (NonZeroOid, FileMode): a tree entry.
TreeEntries == [oid : NonZeroOids, mode : FileModes]

OptionOf(S) == {None} \cup {Some(x) : x \in S}

Trees == [Paths -> OptionOf(TreeEntries)]

EmptyTree == [p \in Paths |-> None]

\* IndexEntry { oid: MaybeZeroOid, file_mode }.
IndexEntries == [oid : 0..MaxOid, mode : FileModes]

VARIABLES
    pc,                   \* "start" before the operation, "done" after it
    patch_commit,         \* the commit handed to cherry_pick_fast / amend_fast
    target_commit,        \* the commit cherry_pick_fast applies the patch onto
    conflicts_iter_empty, \* the merged index's conflict iterator yields nothing
    options,              \* CherryPickFastOptions of the call
    repo_index,           \* the repository's staging index
    working_copy,         \* the working copy: whether there is one, and its files
    amend_opts,           \* AmendFastOptions of the call
    result,               \* what the operation returned
    references,           \* the repository's references: the commit each one points to
    objects               \* the objects of the repository's object database

rewrite_vars_but_pc ==
    <<patch_commit, target_commit, conflicts_iter_empty, options, repo_index,
      working_copy, amend_opts, result, references, objects>>

rewrite_vars ==
    <<pc, patch_commit, target_commit, conflicts_iter_empty, options, repo_index,
      working_copy, amend_opts, result, references, objects>>

VARIABLES
    dag,                  \* the commit DAG: parents, main_branch_commit, obsolete_commits
    observed_commits,     \* the commits the smartlog was asked to show
    remove_commits,       \* make_smartlog_graph's flag: drop obsolete observed commits
    commit_times,         \* the commit time of every commit
    missing_commits,      \* commits whose objects are gone from the object store
    path_to_main_branch,  \* what the DAG answered for each active head of the build
    graph,                \* the SmartlogGraph built: its nodes, by OID
    root_commit_oids,     \* the renderer's list of the graph's roots, once sorted
    head_oid,             \* the commit HEAD points to, if any, as the renderer is told
    lines                 \* the lines the renderer returned

smartlog_vars ==
    <<dag, observed_commits, remove_commits, commit_times, missing_commits,
      path_to_main_branch, graph, root_commit_oids, head_oid, lines>>

VARIABLES
    output,               \* the text `git version` printed, one character per element
    git_version           \* what parsing the text as a GitVersion returned

version_vars == <<output, git_version>>

VARIABLES
    show_hidden_commits,  \* SmartlogOptions::show_hidden_commits of the smartlog command
    old_obsolete_commits, \* the command's local the DAG's obsolete set is swapped with
    exit_code             \* the command's exit code, once it has returned

command_vars == <<show_hidden_commits, old_obsolete_commits, exit_code>>

VARIABLES
    status_bytes,         \* Repo::get_status: the bytes of the output not yet consumed
    statuses,             \* the lines of the entries parsed so far
    status_result         \* what get_status returned

status_vars == <<status_bytes, statuses, status_result>>

vars == <<rewrite_vars, smartlog_vars, version_vars, command_vars, status_vars>>

\* The command's state while the smartlog command is not run.
CommandIdle ==
    /\ show_hidden_commits = FALSE
    /\ old_obsolete_commits = {}
    /\ exit_code = None

\* The status state while get_status is not called.
StatusIdle ==
    /\ status_bytes = <<>>
    /\ statuses = <<>>
    /\ status_result = [kind |-> "none", entries |-> <<>>, prefix |-> None]

\* No text parsed yet.
NoVersion == [kind |-> "none", version |-> <<>>, text |-> <<>>]

\* The version state while the other operations are exercised.
VersionIdle ==
    /\ output = <<>>
    /\ git_version = NoVersion

NoResult == [kind |-> "none", tree |-> None, conflicting_paths |-> {}, calls |-> <<>>]

NoOptions == [reuse_parent_tree_if_possible |-> FALSE]

\* An index without entries and without conflicts.
EmptyIndex == [entries |-> [p \in Paths |-> None], has_conflicts |-> FALSE, conflicts |-> {}]

\* A bare repository: no working copy path, no files.
NoWorkingCopy == [exists |-> FALSE, files |-> [p \in Paths |-> None]]

NoAmendOpts == [kind |-> "none", paths |-> {}, status_entries |-> {}]

\* Number of commits of the DAG; their OIDs are 1..NumCommits.
NumCommits == 5

Commits == 1..NumCommits

\* A SmartlogGraph without nodes.
NoGraph == [nodes |-> <<>>]

\* The smartlog state while the rewrite engine is exercised: a repository
\* with no commits observed and no graph built.
SmartlogIdle ==
    /\ dag = [parents |-> [c \in Commits |-> {}], main_branch_commit |-> 1,
              obsolete_commits |-> {}]
    /\ observed_commits = {}
    /\ remove_commits = FALSE
    /\ commit_times = [c \in Commits |-> c]
    /\ missing_commits = {}
    /\ path_to_main_branch = <<>>
    /\ graph = NoGraph
    /\ root_commit_oids = <<>>
    /\ head_oid = None
    /\ lines = <<>>

\* The rewrite engine's state while the smartlog is exercised: no call is
\* made and the repository's references and objects are left out.
RewriteIdle ==
    /\ patch_commit = [tree |-> EmptyTree, parents |-> <<>>]
    /\ target_commit = [tree |-> EmptyTree, parents |-> <<>>]
    /\ conflicts_iter_empty = FALSE
    /\ options = NoOptions
    /\ repo_index = EmptyIndex
    /\ working_copy = NoWorkingCopy
    /\ amend_opts = NoAmendOpts
    /\ result = NoResult
    /\ references = <<>>
    /\ objects = {}

----------------------------------------------------------------------------
(* Tree helpers of git/tree.rs *)

\* Paths whose entry differs between two trees; every path of new_tree when
\* there is no old tree.
get_changed_paths_between_trees(old_tree, new_tree) ==
    IF old_tree = None
    THEN {p \in Paths : new_tree[p] # None}
    ELSE {p \in Paths : old_tree[1][p] # new_tree[p]}

\* The tree restricted to the given paths.
dehydrate_tree(tree, paths) ==
    [p \in Paths |-> IF p \in paths THEN tree[p] ELSE None]

\* base_tree with every updated path set (Some) or removed (None).
hydrate_tree(base_tree, entries) ==
    [p \in Paths |-> IF p \in DOMAIN entries THEN entries[p] ELSE base_tree[p]]

----------------------------------------------------------------------------
(* Commits *)

get_only_parent(commit) ==
    IF Len(commit.parents) = 1 THEN Some(commit.parents[1]) ELSE None

\* get_paths_touched_by_commit diffing a merge commit against its first parent.
get_paths_touched_by_commit_first_parent(commit) ==
    IF Len(commit.parents) = 0
    THEN Some(get_changed_paths_between_trees(None, commit.tree))
    ELSE Some(get_changed_paths_between_trees(Some(commit.parents[1].tree), commit.tree))

get_paths_touched_by_commit(commit) ==
    CASE Len(commit.parents) = 0 ->
            Some(get_changed_paths_between_trees(None, commit.tree))
      [] Len(commit.parents) = 1 ->
            Some(get_changed_paths_between_trees(Some(commit.parents[1].tree), commit.tree))
      [] OTHER -> None

\* The OID of the tree's entry at the path; None when the path has no entry.
get_oid_for_path(tree, path) ==
    IF tree[path] = None THEN None ELSE Some(tree[path][1].oid)

contains_touched_path(commit, path) ==
    IF get_only_parent(commit) = None
    THEN None
    ELSE LET parent_oid == get_oid_for_path(get_only_parent(commit)[1].tree, path)
             current_oid == get_oid_for_path(commit.tree, path)
         IN  CASE parent_oid = None /\ current_oid = None -> Some(FALSE)
               [] parent_oid = None \/ current_oid = None -> Some(TRUE)
               [] OTHER -> Some(parent_oid[1] # current_oid[1])

dehydrate_commit(commit, changed_paths, base_on_parent) ==
    [tree |-> dehydrate_tree(commit.tree, changed_paths),
     parents |->
        IF base_on_parent /\ get_only_parent(commit) # None
        THEN <<[tree |-> dehydrate_tree(get_only_parent(commit)[1].tree, changed_paths),
                parents |-> <<>>]>>
        ELSE <<>>]

----------------------------------------------------------------------------
(* The three-way merge of libgit2 behind Repo::cherry_pick_commit *)

\* Merge of one scalar: the side that changed wins; None when both sides
\* changed it differently.
merge_value(ancestor, our, their) ==
    IF our = their THEN Some(our)
    ELSE IF ancestor = our THEN Some(their)
    ELSE IF ancestor = their THEN Some(our)
    ELSE None

\* Merge of the entries at one path: [conflict, entry].  Blobs are opaque, so
\* two different content changes conflict; a content change on one side and a
\* mode change on the other merge cleanly.
merge_entry(ancestor, our, their) ==
    IF our = their THEN [conflict |-> FALSE, entry |-> our]
    ELSE IF ancestor = our THEN [conflict |-> FALSE, entry |-> their]
    ELSE IF ancestor = their THEN [conflict |-> FALSE, entry |-> our]
    ELSE IF ancestor = None \/ our = None \/ their = None
    THEN [conflict |-> TRUE, entry |-> None]
    ELSE LET oid == merge_value(ancestor[1].oid, our[1].oid, their[1].oid)
             mode == merge_value(ancestor[1].mode, our[1].mode, their[1].mode)
         IN  IF oid = None \/ mode = None
             THEN [conflict |-> TRUE, entry |-> None]
             ELSE [conflict |-> FALSE, entry |-> Some([oid |-> oid[1], mode |-> mode[1]])]

\* One side of a conflict, as the index's conflict iterator reports it.
conflict_side(path, entry) ==
    IF entry = None THEN None ELSE Some([path |-> path, entry |-> entry[1]])

\* git_cherrypick_commit with mainline 0: merges the patch commit's tree into
\* our commit's tree, with the tree of the patch commit's parent (no tree for
\* a parentless commit) as the ancestor.  iter_empty: the conflict iterator
\* of the resulting index yields nothing.
cherry_pick_commit(cherry_pick, our_commit, iter_empty) ==
    LET ancestor(p) == IF Len(cherry_pick.parents) = 0 THEN None
                       ELSE cherry_pick.parents[1].tree[p]
        merged(p) == merge_entry(ancestor(p), our_commit.tree[p], cherry_pick.tree[p])
        conflicted == {p \in Paths : merged(p).conflict}
    IN  [entries |-> [p \in Paths |-> IF p \in conflicted THEN None ELSE merged(p).entry],
         has_conflicts |-> conflicted # {},
         conflicts |->
            IF iter_empty THEN {}
            ELSE {[ancestor |-> conflict_side(p, ancestor(p)),
                   our |-> conflict_side(p, our_commit.tree[p]),
                   their |-> conflict_side(p, cherry_pick.tree[p])] : p \in conflicted}]

\* Index::get_entry: the stage-0 entry at the path, if any.
get_entry(index, path) == index.entries[path]

----------------------------------------------------------------------------
(* Repo::cherry_pick_fast *)

\* conflicting_paths_of collecting only our side of each conflict.
conflicting_paths_of_our_side_only(index) ==
    {conflict.our[1].path : conflict \in {c \in index.conflicts : c.our # None}}

\* The paths named by the conflicts of the merged index.
conflicting_paths_of(index) ==
    UNION {
        {side[1].path : side \in {s \in {conflict.ancestor, conflict.our, conflict.their} : s # None}}
        : conflict \in index.conflicts}

\* rebased_entries read for every path of the repository instead of the
\* changed paths only.
rebased_entries_all_paths(index, changed_paths) ==
    [p \in Paths |->
        IF get_entry(index, p) = None THEN None
        ELSE IF get_entry(index, p)[1].oid = 0 THEN None
        ELSE get_entry(index, p)]

\* The entries of the merged index at the changed paths; a missing entry or
\* an entry with the zero OID is a deletion.
rebased_entries(index, changed_paths) ==
    [p \in changed_paths |->
        IF get_entry(index, p) = None THEN None
        ELSE IF get_entry(index, p)[1].oid = 0 THEN None
        ELSE get_entry(index, p)]

Ok(tree, calls) ==
    [kind |-> "Ok", tree |-> Some(tree), conflicting_paths |-> {}, calls |-> calls]

Err(kind, calls) ==
    [kind |-> kind, tree |-> None, conflicting_paths |-> {}, calls |-> calls]

MergeConflict(paths, calls) ==
    [kind |-> "MergeConflict", tree |-> None, conflicting_paths |-> paths, calls |-> calls]

\* reuse_parent_tree comparing the patch commit's own tree with the target's.
reuse_parent_tree_compares_own_tree(patch, target, opts) ==
    /\ opts.reuse_parent_tree_if_possible
    /\ get_only_parent(patch) # None
    /\ patch.tree = target.tree

\* The early return for a patch applied onto the tree it was based on.
reuse_parent_tree(patch, target, opts) ==
    /\ opts.reuse_parent_tree_if_possible
    /\ get_only_parent(patch) # None
    /\ get_only_parent(patch)[1].tree = target.tree

\* cherry_pick_fast hydrating the patch commit's tree instead of the target's.
cherry_pick_fast_hydrating_patch_tree(patch, target, opts, iter_empty) ==
    IF reuse_parent_tree(patch, target, opts)
    THEN Ok(patch.tree, <<>>)
    ELSE IF get_paths_touched_by_commit(patch) = None
    THEN Err("GetPatch", <<>>)
    ELSE
      LET changed_paths == get_paths_touched_by_commit(patch)[1]
          dehydrated_patch_commit == dehydrate_commit(patch, changed_paths, TRUE)
          dehydrated_target_commit == dehydrate_commit(target, changed_paths, FALSE)
          rebased_index ==
              cherry_pick_commit(dehydrated_patch_commit, dehydrated_target_commit, iter_empty)
          merged == <<"dehydrate_commit", "dehydrate_commit", "cherry_pick_commit">>
      IN  IF rebased_index.has_conflicts
          THEN MergeConflict(conflicting_paths_of(rebased_index), merged)
          ELSE Ok(hydrate_tree(patch.tree, rebased_entries(rebased_index, changed_paths)),
                  Append(merged, "hydrate_tree"))

cherry_pick_fast(patch, target, opts, iter_empty) ==
    IF reuse_parent_tree(patch, target, opts)
    THEN Ok(patch.tree, <<>>)
    ELSE IF get_paths_touched_by_commit(patch) = None
    THEN Err("GetPatch", <<>>)
    ELSE
      LET changed_paths == get_paths_touched_by_commit(patch)[1]
          dehydrated_patch_commit == dehydrate_commit(patch, changed_paths, TRUE)
          dehydrated_target_commit == dehydrate_commit(target, changed_paths, FALSE)
          rebased_index ==
              cherry_pick_commit(dehydrated_patch_commit, dehydrated_target_commit, iter_empty)
          merged == <<"dehydrate_commit", "dehydrate_commit", "cherry_pick_commit">>
      IN  IF rebased_index.has_conflicts
          THEN MergeConflict(conflicting_paths_of(rebased_index), merged)
          ELSE Ok(hydrate_tree(target.tree, rebased_entries(rebased_index, changed_paths)),
                  Append(merged, "hydrate_tree"))

----------------------------------------------------------------------------
(* What the calls write: objects of the object database and references.   *)
(* An object is named by its type, how it came about and the commit or    *)
(* path it came from; two names may stand for the same content-addressed  *)
(* object, and writing an object that exists adds nothing.                *)

RefNames == {"HEAD", "refs/heads/master"}

\* An object that was in the repository before the call.
stored_object(type, name) == <<type, "stored", name>>

\* Writing a tree or a blob adds the object and touches no reference.
write_object(type, origin, name) ==
    [object |-> <<type, origin, name>>, update_ref |-> None]

\* Repo::create_commit: adds the commit object and, when update_ref names a
\* reference, points that reference to the new commit.
create_commit(update_ref, origin, name) ==
    [object |-> <<"commit", origin, name>>, update_ref |-> update_ref]

\* dehydrate_commit creating its commits with update_ref = "HEAD".
dehydrate_commit_writes_updating_head(name, commit, base_on_parent) ==
    {write_object("tree", "dehydrated", name)}
    \cup (IF base_on_parent /\ get_only_parent(commit) # None
          THEN {write_object("tree", "dehydrated parent", name),
                create_commit(Some("HEAD"), "dehydrated parent", name)}
          ELSE {})
    \cup {create_commit(Some("HEAD"), "dehydrated", name)}

\* What dehydrate_commit writes: the dehydrated tree, the same for the only
\* parent when the commit is based on it, and the dehydrated commit, every
\* commit created with update_ref = None.
dehydrate_commit_writes(name, commit, base_on_parent) ==
    {write_object("tree", "dehydrated", name)}
    \cup (IF base_on_parent /\ get_only_parent(commit) # None
          THEN {write_object("tree", "dehydrated parent", name),
                create_commit(None, "dehydrated parent", name)}
          ELSE {})
    \cup {create_commit(None, "dehydrated", name)}

\* What cherry_pick_fast wrote on its way to the outcome: nothing when it
\* returned before dehydrating, else the two dehydrated commits and, on
\* success, the hydrated tree; the merge itself is made in memory.
cherry_pick_fast_writes(patch, target, outcome) ==
    IF outcome.calls = <<>> THEN {}
    ELSE dehydrate_commit_writes("patch_commit", patch, TRUE)
         \cup dehydrate_commit_writes("target_commit", target, FALSE)
         \cup (IF outcome.kind = "Ok"
               THEN {write_object("tree", "hydrated", "target_commit")}
               ELSE {})

\* The object database after the writes: objects are only ever added.
objects_after(objs, writes) == objs \cup {w.object : w \in writes}

\* The references after the writes: a reference moves when a commit was
\* created with it as update_ref.
references_after(refs, writes) ==
    [name \in DOMAIN refs |->
        IF \E w \in writes : w.update_ref = Some(name)
        THEN (CHOOSE w \in writes : w.update_ref = Some(name)).object
        ELSE refs[name]]

\* The objects of a commit that is in the repository.
commit_objects(name) == {stored_object("commit", name), stored_object("tree", name)}

----------------------------------------------------------------------------
(* Cherry-picking: the repository holds a patch commit with up to MaxParents *)
(* parents and a target commit; a merge commit's second parent is the target. *)

ParentLists(target_tree) ==
    {<<>>} \cup {<<[tree |-> t]>> : t \in Trees}
           \cup {<<[tree |-> t], [tree |-> target_tree]>> : t \in Trees}

InitCherryPick ==
    /\ pc = "start"
    /\ target_commit \in [tree : Trees, parents : {<<>>}]
    /\ patch_commit \in [tree : Trees, parents : ParentLists(target_commit.tree)]
    /\ conflicts_iter_empty \in BOOLEAN
    /\ options = NoOptions
    /\ repo_index = EmptyIndex
    /\ working_copy = NoWorkingCopy
    /\ amend_opts = NoAmendOpts
    /\ result = NoResult
    /\ references = [name \in RefNames |-> stored_object("commit", "target_commit")]
    /\ objects = commit_objects("patch_commit") \cup commit_objects("target_commit")
    /\ SmartlogIdle
    /\ VersionIdle
    /\ CommandIdle
    /\ StatusIdle

CherryPickFast ==
    /\ pc = "start"
    /\ \E reuse \in BOOLEAN :
         /\ options' = [reuse_parent_tree_if_possible |-> reuse]
         /\ result' = cherry_pick_fast(patch_commit, target_commit, options',
                                       conflicts_iter_empty)
         /\ references' =
               references_after(references,
                                cherry_pick_fast_writes(patch_commit, target_commit, result'))
         /\ objects' =
               objects_after(objects,
                             cherry_pick_fast_writes(patch_commit, target_commit, result'))
    /\ pc' = "done"
    /\ UNCHANGED <<patch_commit, target_commit, conflicts_iter_empty, repo_index,
                   working_copy, amend_opts>>
    /\ UNCHANGED smartlog_vars
    /\ UNCHANGED version_vars
    /\ UNCHANGED command_vars
    /\ UNCHANGED status_vars

NextCherryPick == CherryPickFast

SpecCherryPick == InitCherryPick /\ [][NextCherryPick]_vars

----------------------------------------------------------------------------
(* Properties of cherry_pick_fast *)

\* The paths of the patch: where the patch commit's tree differs from its
\* parent's tree (from the empty tree for a parentless commit).
PatchPaths ==
    {p \in Paths :
        patch_commit.tree[p] #
            (IF Len(patch_commit.parents) = 0 THEN None ELSE patch_commit.parents[1].tree[p])}

\* The index the three-way merge of the dehydrated commits produces.
MergedIndex ==
    cherry_pick_commit(dehydrate_commit(patch_commit, PatchPaths, TRUE),
                       dehydrate_commit(target_commit, PatchPaths, FALSE),
                       conflicts_iter_empty)

\* C1: with reuse_parent_tree_if_possible set, picking a commit with exactly
\* one parent onto a target whose tree equals that parent's tree returns the
\* commit's own tree, and nothing is dehydrated, merged or hydrated.
C1_RewordShortCircuit ==
    (/\ pc = "done"
     /\ options.reuse_parent_tree_if_possible
     /\ Len(patch_commit.parents) = 1
     /\ patch_commit.parents[1].tree = target_commit.tree)
    => (/\ result.kind = "Ok"
        /\ result.tree = Some(patch_commit.tree)
        /\ result.calls = <<>>)

C1_Witness ==
    /\ pc = "done"
    /\ options.reuse_parent_tree_if_possible
    /\ Len(patch_commit.parents) = 1
    /\ patch_commit.parents[1].tree = target_commit.tree
    /\ patch_commit.tree # target_commit.tree
    /\ result.tree = Some(patch_commit.tree)

\* C2: a tree returned by cherry_pick_fast has the target tree's entry (OID
\* and file mode) at every path the patch does not touch.
C2_PathRestriction ==
    (pc = "done" /\ result.tree # None)
    => \A p \in Paths \ PatchPaths : result.tree[1][p] = target_commit.tree[p]

\* A file added by the patch lands on a target whose other file differs from
\* the one the patch was based on.
C2_Witness ==
    /\ pc = "done"
    /\ result.kind = "Ok"
    /\ "hydrate_tree" \in {result.calls[i] : i \in DOMAIN result.calls}
    /\ Len(patch_commit.parents) = 1
    /\ PatchPaths = {"test1.txt"}
    /\ patch_commit.parents[1].tree["test1.txt"] = None
    /\ target_commit.tree["initial.txt"] # None
    /\ target_commit.tree["initial.txt"] # patch_commit.tree["initial.txt"]
    /\ result.tree[1]["initial.txt"] = target_commit.tree["initial.txt"]
    /\ result.tree[1]["test1.txt"] = patch_commit.tree["test1.txt"]

----------------------------------------------------------------------------
(* Repo::amend_fast *)

\* StatusEntry::paths: the entry's path, and its original path if it has one.
status_entry_paths(entry) ==
    {entry.path} \cup (IF entry.orig_path = None THEN {} ELSE {entry.orig_path[1]})

\* The paths the options name.
opts_paths(opts) ==
    IF opts.kind = "FromIndex" THEN opts.paths
    ELSE UNION {status_entry_paths(entry) : entry \in opts.status_entries}

\* The blob of the file's contents on disk; None when the file does not exist.
create_blob_from_path(wc, path) == wc.files[path]

\* new_tree_entries giving every file read from disk the mode Blob.
new_tree_entries_from_working_copy_mode_blob(status_entries, wc) ==
    [p \in UNION {status_entry_paths(entry) : entry \in status_entries} |->
        IF create_blob_from_path(wc, p) = None THEN None
        ELSE Some([oid |-> create_blob_from_path(wc, p)[1], mode |-> "Blob"])]

\* FromWorkingCopy: every named path gets the blob of its file on disk with
\* the status entry's working_copy_file_mode, or None for a missing file.
new_tree_entries_from_working_copy(status_entries, wc) ==
    [p \in UNION {status_entry_paths(entry) : entry \in status_entries} |->
        LET entry == CHOOSE e \in status_entries : p \in status_entry_paths(e)
        IN  IF create_blob_from_path(wc, p) = None THEN None
            ELSE Some([oid |-> create_blob_from_path(wc, p)[1],
                       mode |-> entry.working_copy_file_mode])]

\* new_tree_entries taken from every path of the repository, listed or not.
new_tree_entries_from_whole_index(paths, idx) ==
    [p \in {q \in Paths : ~(get_entry(idx, q) # None /\ get_entry(idx, q)[1].oid = 0)} |->
        get_entry(idx, p)]

\* new_tree_entries leaving out the listed paths the index has no entry for.
new_tree_entries_from_index_entries_only(paths, idx) ==
    [p \in {q \in paths : get_entry(idx, q) # None /\ get_entry(idx, q)[1].oid # 0} |->
        get_entry(idx, p)]

\* FromIndex: every listed path gets its index entry, or None when the index
\* has none; a listed path whose index entry has the zero OID is left out of
\* the map (filter_map yields None for it).
new_tree_entries_from_index(paths, idx) ==
    [p \in {q \in paths : ~(get_entry(idx, q) # None /\ get_entry(idx, q)[1].oid = 0)} |->
        get_entry(idx, p)]

new_tree_entries(opts, idx, wc) ==
    IF opts.kind = "FromWorkingCopy"
    THEN new_tree_entries_from_working_copy(opts.status_entries, wc)
    ELSE new_tree_entries_from_index(opts.paths, idx)

\* amended_tree_entries without the fall-back to the parent commit's entry.
amended_tree_entries_new_only(changed_paths, new_entries, dehydrated_parent_tree) ==
    [p \in changed_paths |-> IF p \in DOMAIN new_entries THEN new_entries[p] ELSE None]

\* The new entry of every changed path: the one from the options, else the
\* one of the dehydrated parent tree.
amended_tree_entries(changed_paths, new_entries, dehydrated_parent_tree) ==
    [p \in changed_paths |->
        IF p \in DOMAIN new_entries THEN new_entries[p] ELSE dehydrated_parent_tree[p]]

\* amend_fast asking for the working copy only when it amends from it.
amend_fast_index_without_working_copy(parent_commit, opts, idx, wc) ==
    IF get_paths_touched_by_commit(parent_commit) = None
    THEN Err("GetPatch", <<>>)
    ELSE
      LET changed_paths == get_paths_touched_by_commit(parent_commit)[1] \cup opts_paths(opts)
          dehydrated_parent == dehydrate_commit(parent_commit, changed_paths, TRUE)
      IN  IF ~wc.exists /\ opts.kind = "FromWorkingCopy"
          THEN Err("NoWorkingCopyPath", <<"dehydrate_commit">>)
          ELSE Ok(hydrate_tree(parent_commit.tree,
                               amended_tree_entries(changed_paths,
                                                    new_tree_entries(opts, idx, wc),
                                                    dehydrated_parent.tree)),
                  <<"dehydrate_commit", "hydrate_tree">>)

\* Repo::amend_fast: the tree of the amended commit, or the error.
amend_fast(parent_commit, opts, idx, wc) ==
    IF get_paths_touched_by_commit(parent_commit) = None
    THEN Err("GetPatch", <<>>)
    ELSE
      LET changed_paths == get_paths_touched_by_commit(parent_commit)[1] \cup opts_paths(opts)
          dehydrated_parent == dehydrate_commit(parent_commit, changed_paths, TRUE)
      IN  IF ~wc.exists
          THEN Err("NoWorkingCopyPath", <<"dehydrate_commit">>)
          ELSE Ok(hydrate_tree(parent_commit.tree,
                               amended_tree_entries(changed_paths,
                                                    new_tree_entries(opts, idx, wc),
                                                    dehydrated_parent.tree)),
                  <<"dehydrate_commit", "hydrate_tree">>)

\* What amend_fast wrote on its way to the outcome: nothing when it returned
\* before dehydrating, else the dehydrated commits, a blob for every named
\* file found on disk, and on success the amended tree.
amend_fast_writes(parent_commit, opts, wc, outcome) ==
    IF outcome.calls = <<>> THEN {}
    ELSE dehydrate_commit_writes("parent_commit", parent_commit, TRUE)
         \cup (IF wc.exists /\ opts.kind = "FromWorkingCopy"
               THEN {write_object("blob", "on disk", p) :
                        p \in {q \in opts_paths(opts) : create_blob_from_path(wc, q) # None}}
               ELSE {})
         \cup (IF outcome.kind = "Ok"
               THEN {write_object("tree", "hydrated", "parent_commit")}
               ELSE {})

----------------------------------------------------------------------------
(* Amending: the repository holds the commit to amend, a staging index and  *)
(* (unless it is bare) a working copy; the call's options are fixed up      *)
(* front.                                                                   *)

FirstEntry == [oid |-> 1, mode |-> "Blob"]

\* The parent's tree is only ever diffed against the commit's tree: at each
\* path the parent has the same entry, no entry, or the entry (1, Blob).
AmendParentTrees(tree) ==
    {t \in Trees : \A p \in Paths : t[p] \in {tree[p], None, Some(FirstEntry)}}

AmendParentLists(tree) ==
    {<<>>} \cup {<<[tree |-> t]>> : t \in AmendParentTrees(tree)}
           \cup {<<[tree |-> tree], [tree |-> EmptyTree]>>}

StatusEntries ==
    [path : Paths, orig_path : OptionOf(Paths), working_copy_file_mode : FileModes]

\* Status entries as `git status` reports them: no path is named twice.
StatusEntryLists ==
    {es \in SUBSET {e \in StatusEntries : e.orig_path # Some(e.path)} :
        \A e1, e2 \in es : e1 # e2 => status_entry_paths(e1) \cap status_entry_paths(e2) = {}}

AmendFastOptions ==
    {[kind |-> "FromIndex", paths |-> ps, status_entries |-> {}] : ps \in SUBSET Paths}
    \cup {[kind |-> "FromWorkingCopy", paths |-> {}, status_entries |-> es] :
            es \in StatusEntryLists}

Indexes ==
    {[entries |-> f, has_conflicts |-> FALSE, conflicts |-> {}] :
        f \in [Paths -> OptionOf(IndexEntries)]}

\* The index after `git add` of every file of the tree.
IndexOfTree(tree) == [entries |-> tree, has_conflicts |-> FALSE, conflicts |-> {}]

\* The working-copy files after checking out the tree.
Checkout(tree) ==
    [p \in Paths |-> IF tree[p] = None THEN None ELSE Some(tree[p][1].oid)]

InitAmend ==
    /\ pc = "start"
    /\ \E tree \in Trees : \E parents \in AmendParentLists(tree) :
          patch_commit = [tree |-> tree, parents |-> parents]
    /\ target_commit = [tree |-> EmptyTree, parents |-> <<>>]
    /\ conflicts_iter_empty = FALSE
    /\ options = NoOptions
    /\ amend_opts \in AmendFastOptions
    /\ \/ /\ working_copy = NoWorkingCopy
          /\ repo_index = EmptyIndex
       \/ /\ amend_opts.kind = "FromIndex"
          /\ repo_index \in Indexes
          /\ working_copy = [exists |-> TRUE, files |-> Checkout(patch_commit.tree)]
       \/ /\ amend_opts.kind = "FromWorkingCopy"
          /\ repo_index = IndexOfTree(patch_commit.tree)
          /\ working_copy \in [exists : {TRUE}, files : [Paths -> OptionOf(NonZeroOids)]]
    /\ result = NoResult
    /\ references = [name \in RefNames |-> stored_object("commit", "parent_commit")]
    /\ objects = commit_objects("parent_commit")
    /\ SmartlogIdle
    /\ VersionIdle
    /\ CommandIdle
    /\ StatusIdle

AmendFast ==
    /\ pc = "start"
    /\ result' = amend_fast(patch_commit, amend_opts, repo_index, working_copy)
    /\ references' =
          references_after(references,
                           amend_fast_writes(patch_commit, amend_opts, working_copy, result'))
    /\ objects' =
          objects_after(objects,
                        amend_fast_writes(patch_commit, amend_opts, working_copy, result'))
    /\ pc' = "done"
    /\ UNCHANGED <<patch_commit, target_commit, conflicts_iter_empty, options,
                   repo_index, working_copy, amend_opts>>
    /\ UNCHANGED smartlog_vars
    /\ UNCHANGED version_vars
    /\ UNCHANGED command_vars
    /\ UNCHANGED status_vars

NextAmend == AmendFast

SpecAmend == InitAmend /\ [][NextAmend]_vars

----------------------------------------------------------------------------
(* Properties of amend_fast *)

\* The paths the call's options name: FromIndex.paths, or the path and the
\* original path of every status entry.
NamedPaths ==
    amend_opts.paths
    \cup {e.path : e \in amend_opts.status_entries}
    \cup {e.orig_path[1] : e \in {x \in amend_opts.status_entries : x.orig_path # None}}

\* C5: amending a commit with exactly one parent from the index with no
\* paths returns the commit's own tree, whatever the commit itself touched.
C5_AmendIdempotence ==
    (/\ pc = "done"
     /\ amend_opts.kind = "FromIndex"
     /\ amend_opts.paths = {}
     /\ Len(patch_commit.parents) = 1
     /\ working_copy.exists)
    => (result.kind = "Ok" /\ result.tree = Some(patch_commit.tree))

\* The amended commit deleted one path and added or changed another one.
C5_Witness ==
    /\ pc = "done"
    /\ amend_opts.kind = "FromIndex"
    /\ amend_opts.paths = {}
    /\ Len(patch_commit.parents) = 1
    /\ working_copy.exists
    /\ \E p, q \in Paths :
          /\ patch_commit.tree[p] = None
          /\ patch_commit.parents[1].tree[p] # None
          /\ patch_commit.tree[q] # None
          /\ patch_commit.parents[1].tree[q] # patch_commit.tree[q]
    /\ result.tree = Some(patch_commit.tree)

\* C6: in an amend from the index, the resulting tree has no entry at a
\* listed path whose index entry has the zero OID.
C6_ZeroOidIsDeletion ==
    (pc = "done" /\ amend_opts.kind = "FromIndex" /\ result.tree # None)
    => \A p \in amend_opts.paths :
          (get_entry(repo_index, p) # None /\ get_entry(repo_index, p)[1].oid = 0)
          => result.tree[1][p] = None

\* C7: in an amend from the working copy, the resulting tree has at every
\* path a status entry names the blob of the file on disk with the entry's
\* working_copy_file_mode, and no entry when the file does not exist.
C7_WorkingCopyDecides ==
    (pc = "done" /\ amend_opts.kind = "FromWorkingCopy" /\ result.tree # None)
    => \A e \in amend_opts.status_entries :
         \A p \in {e.path} \cup {q \in Paths : e.orig_path = Some(q)} :
            IF working_copy.files[p] = None
            THEN result.tree[1][p] = None
            ELSE result.tree[1][p] =
                    Some([oid |-> working_copy.files[p][1], mode |-> e.working_copy_file_mode])

\* Amending the deletion of the only file of the commit gives the empty tree.
C7_Witness ==
    /\ pc = "done"
    /\ amend_opts.kind = "FromWorkingCopy"
    /\ \E e \in amend_opts.status_entries : e.path = "initial.txt"
    /\ patch_commit.tree["initial.txt"] # None
    /\ patch_commit.tree["test1.txt"] = None
    /\ working_copy.files["initial.txt"] = None
    /\ result.tree = Some(EmptyTree)

\* C8: at every path the options do not name, the resulting tree has the
\* amended commit's entry.
C8_OnlyNamedPathsAmended ==
    (pc = "done" /\ result.tree # None)
    => \A p \in Paths \ NamedPaths : result.tree[1][p] = patch_commit.tree[p]

\* The file of a path the commit itself changed has other contents on disk,
\* but only the other path is named by a status entry.
C8_Witness ==
    /\ pc = "done"
    /\ amend_opts.kind = "FromWorkingCopy"
    /\ NamedPaths = {"test1.txt"}
    /\ Len(patch_commit.parents) = 1
    /\ patch_commit.tree["initial.txt"] # None
    /\ patch_commit.parents[1].tree["initial.txt"] # patch_commit.tree["initial.txt"]
    /\ working_copy.files["initial.txt"] # None
    /\ working_copy.files["initial.txt"] # Some(patch_commit.tree["initial.txt"][1].oid)
    /\ working_copy.files["test1.txt"] # None
    /\ result.tree # None
    /\ result.tree[1]["initial.txt"] = patch_commit.tree["initial.txt"]
    /\ result.tree[1]["test1.txt"] # patch_commit.tree["test1.txt"]

----------------------------------------------------------------------------
(* The commit DAG queries the smartlog relies on (core/dag.rs) *)

RECURSIVE ancestors(_, _)
\* The proper ancestors of a commit.
ancestors(d, c) == UNION {{p} \cup ancestors(d, p) : p \in d.parents[c]}

\* The commits of the main branch.
query_public_commits(d) ==
    {d.main_branch_commit} \cup ancestors(d, d.main_branch_commit)

\* The observed commits that are not an ancestor of another observed commit.
query_active_heads(d, public_commits, observed) ==
    {h \in observed : \A o \in observed : h \notin ancestors(d, o)}

\* Longer than any path of the DAG: no public commit is reachable.
Unreachable(d) == Len(d.parents) + 1

Min(S) == CHOOSE x \in S : \A y \in S : x <= y

RECURSIVE distance_to_public(_, _, _)
\* The number of parent steps from the commit to the nearest public commit.
distance_to_public(d, public_commits, c) ==
    IF c \in public_commits THEN 0
    ELSE Min({Unreachable(d)}
             \cup {distance_to_public(d, public_commits, p) + 1 : p \in d.parents[c]})

RECURSIVE shortest_paths(_, _, _)
\* The shortest paths from the commit towards the nearest public commit, as
\* commit sets: the commit itself included, the public commit excluded
\* unless it is the commit itself.
shortest_paths(d, public_commits, c) ==
    IF distance_to_public(d, public_commits, c) <= 1 THEN {{c}}
    ELSE {{c} \cup rest :
            rest \in UNION {shortest_paths(d, public_commits, p) :
                              p \in {q \in d.parents[c] :
                                       distance_to_public(d, public_commits, q) + 1 =
                                       distance_to_public(d, public_commits, c)}}}

\* What the DAG may answer for a head: no path when no public commit is
\* reachable, else one of the shortest paths.
find_path_to_main_branch(d, public_commits, head) ==
    IF distance_to_public(d, public_commits, head) >= Unreachable(d) THEN {None}
    ELSE {Some(path) : path \in shortest_paths(d, public_commits, head)}

----------------------------------------------------------------------------
(* graph::walk_from_active_heads *)

RECURSIVE Orderings(_)
\* The sequences that list every element of the set once: the orders a
\* HashMap or an unsorted commit set may be iterated in.
Orderings(S) ==
    IF S = {} THEN {<<>>}
    ELSE UNION {{<<first>> \o rest : rest \in Orderings(S \ {first})} : first \in S}

\* make_node leaving the flags of a garbage-collected node unset.
make_node_flags_of_commits_only(d, public_commits, missing, oid) ==
    [object |-> IF oid \in missing THEN "GarbageCollected" ELSE "Commit",
     parent |-> None,
     children |-> <<>>,
     is_main |-> oid \notin missing /\ oid \in public_commits,
     is_obsolete |-> oid \notin missing /\ oid \in d.obsolete_commits]

\* The node inserted for a commit on a path to the main branch.
make_node(d, public_commits, missing, oid) ==
    [object |-> IF oid \in missing THEN "GarbageCollected" ELSE "Commit",
     parent |-> None,
     children |-> <<>>,
     is_main |-> oid \in public_commits,
     is_obsolete |-> oid \in d.obsolete_commits]

\* walk_nodes inserting nothing for a head the DAG gave no path for.
walk_nodes_of_paths_only(d, public_commits, missing, paths) ==
    LET oids == UNION {IF paths[h] = None THEN {} ELSE paths[h][1] : h \in DOMAIN paths}
    IN  [oid \in oids |-> make_node(d, public_commits, missing, oid)]

\* The nodes of the graph: every commit on the path of every active head,
\* the head alone when the DAG gave no path.  paths maps each active head
\* to the DAG's answer.
walk_nodes(d, public_commits, missing, paths) ==
    LET oids == UNION {IF paths[h] = None THEN {h} ELSE paths[h][1] : h \in DOMAIN paths}
    IN  [oid \in oids |-> make_node(d, public_commits, missing, oid)]

RECURSIVE find_links(_, _, _, _)
\* The (child, parent) links, in the order the loops find them: for every
\* non-main node in node_order, each of its parents in the DAG (in
\* parent_order) that is a node of the graph.
find_links(nodes, node_order, parent_order, i) ==
    IF i > Len(node_order) THEN <<>>
    ELSE LET child_oid == node_order[i]
             parent_oids == SelectSeq(parent_order[child_oid], LAMBDA p : p \in DOMAIN nodes)
         IN  [j \in 1..Len(parent_oids) |-> <<child_oid, parent_oids[j]>>]
             \o find_links(nodes, node_order, parent_order, i + 1)

RECURSIVE apply_links(_, _)
\* Every link in turn sets the child's parent and appends the child to the
\* parent's children.
apply_links(nodes, links) ==
    IF links = <<>> THEN nodes
    ELSE LET child_oid == Head(links)[1]
             parent_oid == Head(links)[2]
             with_parent == [nodes EXCEPT ![child_oid].parent = Some(parent_oid)]
         IN  apply_links([with_parent EXCEPT ![parent_oid].children = Append(@, child_oid)],
                         Tail(links))

\* links: the list find_links gives for the iteration orders of this run.
walk_from_active_heads(d, public_commits, missing, paths, links) ==
    apply_links(walk_nodes(d, public_commits, missing, paths), links)

----------------------------------------------------------------------------
(* graph::sort_children *)

\* NonZeroOid::to_string: the OID's digits, at a fixed width.
oid_to_string(oid) == <<oid \div 10, oid % 10>>

\* Lexicographic order of two strings of the same length.
string_less(a, b) ==
    \E i \in 1..Len(a) : a[i] < b[i] /\ \A j \in 1..(i - 1) : a[j] = b[j]

\* commit_times[oid]: the commit's time, None for a garbage-collected node.
node_commit_time(nodes, times, oid) ==
    IF nodes[oid].object = "Commit" THEN Some(times[oid]) ELSE None

\* The sort key's order without the commit time: OID strings only.
sort_key_less_by_oid_only(nodes, times, a, b) ==
    string_less(oid_to_string(a), oid_to_string(b))

\* The order of the sort key (Option<Time>, String).
sort_key_less(nodes, times, a, b) ==
    LET time_a == node_commit_time(nodes, times, a)
        time_b == node_commit_time(nodes, times, b)
    IN  IF time_a # time_b
        THEN \/ time_a = None
             \/ time_a # None /\ time_b # None /\ time_a[1] < time_b[1]
        ELSE string_less(oid_to_string(a), oid_to_string(b))

RECURSIVE sort_by_key(_, _, _)
\* A stable sort: every element goes behind the elements already placed
\* whose key is not greater than its own.
sort_by_key(nodes, times, children) ==
    IF children = <<>> THEN <<>>
    ELSE LET last == children[Len(children)]
             sorted == sort_by_key(nodes, times, SubSeq(children, 1, Len(children) - 1))
             before == SelectSeq(sorted, LAMBDA c : ~sort_key_less(nodes, times, last, c))
             after == SelectSeq(sorted, LAMBDA c : sort_key_less(nodes, times, last, c))
         IN  before \o <<last>> \o after

sort_children(nodes, times) ==
    [oid \in DOMAIN nodes |->
        [nodes[oid] EXCEPT !.children = sort_by_key(nodes, times, nodes[oid].children)]]

----------------------------------------------------------------------------
(* graph::make_smartlog_graph *)

\* The active heads the graph is walked from.
active_heads_of(d, observed, remove) ==
    query_active_heads(d, query_public_commits(d),
                       IF remove THEN observed \ d.obsolete_commits ELSE observed)

make_smartlog_graph(d, observed, remove, times, missing, paths, links) ==
    [nodes |->
        sort_children(
            walk_from_active_heads(d, query_public_commits(d), missing, paths, links),
            times)]

----------------------------------------------------------------------------
(* The smartlog: a repository whose main branch is commit 1, at most one    *)
(* obsolete commit and at most MaxObserved observed commits.                *)

\* Most commits observed at once.
MaxObserved == 2

\* A commit's parents are among the two commits made just before it.
ParentCandidates(c) == {c - 1, c - 2} \cap Commits

ParentMaps ==
    {[c \in Commits |-> {p \in ParentCandidates(c) : pick[c][c - p]}] :
        pick \in [Commits -> [1..2 -> BOOLEAN]]}

Dags ==
    {[parents |-> parents, main_branch_commit |-> 1, obsolete_commits |-> obsolete] :
        parents \in ParentMaps, obsolete \in {{}} \cup {{c} : c \in Commits}}

RECURSIVE ParentOrderings(_, _)
\* For every commit of the set, an order of its parents in the DAG.
ParentOrderings(d, S) ==
    IF S = {} THEN {<<>>}
    ELSE LET c == CHOOSE x \in S : TRUE
         IN  {(c :> order) @@ rest :
                 order \in Orderings(d.parents[c]), rest \in ParentOrderings(d, S \ {c})}

\* LinkLists looking for the parents of the main nodes too.
LinkLists_of_every_node(d, nodes) ==
    LET non_main_node_oids == DOMAIN nodes
        linked_oids == {oid \in non_main_node_oids : d.parents[oid] \cap DOMAIN nodes # {}}
    IN  {find_links(nodes, node_order, parent_order, 1) :
            node_order \in Orderings(linked_oids),
            parent_order \in ParentOrderings(d, linked_oids)}

\* The link lists find_links may give: one for every iteration order of the
\* non-main nodes and of each node's parents.  A node without a parent in
\* the graph adds no link wherever it comes in the iteration, so only the
\* orders of the other nodes are told apart.
LinkLists(d, nodes) ==
    LET non_main_node_oids == {oid \in DOMAIN nodes : ~nodes[oid].is_main}
        linked_oids == {oid \in non_main_node_oids : d.parents[oid] \cap DOMAIN nodes # {}}
    IN  {find_links(nodes, node_order, parent_order, 1) :
            node_order \in Orderings(linked_oids),
            parent_order \in ParentOrderings(d, linked_oids)}

RECURSIVE PathChoices(_, _)
\* For every active head, one of the answers the DAG may give for it.
PathChoices(d, heads) ==
    IF heads = {} THEN {<<>>}
    ELSE LET h == CHOOSE x \in heads : TRUE
         IN  {(h :> path) @@ rest :
                 path \in find_path_to_main_branch(d, query_public_commits(d), h),
                 rest \in PathChoices(d, heads \ {h})}

InitSmartlog ==
    /\ pc = "start"
    /\ RewriteIdle
    /\ VersionIdle
    /\ CommandIdle
    /\ StatusIdle
    /\ dag \in Dags
    /\ observed_commits \in {s \in SUBSET Commits : Cardinality(s) <= MaxObserved}
    /\ remove_commits \in BOOLEAN
    /\ commit_times = [c \in Commits |-> c]
    /\ missing_commits = {}
    /\ path_to_main_branch = <<>>
    /\ graph = NoGraph
    /\ root_commit_oids = <<>>
    /\ head_oid = None
    /\ lines = <<>>

\* Histories without merge commits: every commit but the first has one
\* parent.
LinearParentMaps == {parents \in ParentMaps : \A c \in Commits \ {1} : Cardinality(parents[c]) = 1}

\* Commit times that follow the OIDs, run against them, or are all equal.
CommitTimeMaps ==
    {[c \in Commits |-> c], [c \in Commits |-> NumCommits + 1 - c], [c \in Commits |-> 1]}

\* A repository without merge commits, in which the object of at most one
\* commit has been garbage collected and the commit times vary.
InitSmartlogObjects ==
    /\ pc = "start"
    /\ RewriteIdle
    /\ VersionIdle
    /\ CommandIdle
    /\ StatusIdle
    /\ dag \in {d \in Dags : d.parents \in LinearParentMaps}
    /\ observed_commits \in {s \in SUBSET Commits : Cardinality(s) <= MaxObserved}
    /\ remove_commits \in BOOLEAN
    /\ commit_times \in CommitTimeMaps
    /\ missing_commits \in {{}} \cup {{c} : c \in Commits}
    /\ path_to_main_branch = <<>>
    /\ graph = NoGraph
    /\ root_commit_oids = <<>>
    /\ head_oid = None
    /\ lines = <<>>

\* Histories without merge commits in which a commit may have no parent, so
\* that a head may have no path to the main branch.
ForestParentMaps == {parents \in ParentMaps : \A c \in Commits : Cardinality(parents[c]) <= 1}

\* A repository of unrelated histories without merge commits, none of them
\* obsolete, in which the object of at most one commit has been garbage
\* collected.
InitSmartlogForest ==
    /\ pc = "start"
    /\ RewriteIdle
    /\ VersionIdle
    /\ CommandIdle
    /\ StatusIdle
    /\ dag \in {d \in Dags : d.parents \in ForestParentMaps /\ d.obsolete_commits = {}}
    /\ observed_commits \in {s \in SUBSET Commits : Cardinality(s) <= MaxObserved}
    /\ remove_commits = FALSE
    /\ commit_times = [c \in Commits |-> c]
    /\ missing_commits \in {{}} \cup {{c} : c \in Commits}
    /\ path_to_main_branch = <<>>
    /\ graph = NoGraph
    /\ root_commit_oids = <<>>
    /\ head_oid = None
    /\ lines = <<>>

MakeSmartlogGraph ==
    /\ pc = "start"
    /\ \E paths \in PathChoices(dag, active_heads_of(dag, observed_commits, remove_commits)) :
         \E links \in LinkLists(dag, walk_nodes(dag, query_public_commits(dag),
                                                missing_commits, paths)) :
            /\ path_to_main_branch' = paths
            /\ graph' = make_smartlog_graph(dag, observed_commits, remove_commits,
                                            commit_times, missing_commits, paths, links)
    /\ pc' = "done"
    /\ UNCHANGED <<dag, observed_commits, remove_commits, commit_times, missing_commits,
                   root_commit_oids, head_oid, lines>>
    /\ UNCHANGED rewrite_vars_but_pc
    /\ UNCHANGED version_vars
    /\ UNCHANGED command_vars
    /\ UNCHANGED status_vars

NextSmartlog == MakeSmartlogGraph

SpecSmartlog == InitSmartlog /\ [][NextSmartlog]_vars

SpecSmartlogObjects == InitSmartlogObjects /\ [][NextSmartlog]_vars

SpecSmartlogForest == InitSmartlogForest /\ [][NextSmartlog]_vars

----------------------------------------------------------------------------
(* Properties of the smartlog graph *)

\* The OIDs of the graph's nodes.
NodeOids == DOMAIN graph.nodes

\* The OIDs listed in a node's children.
ChildrenOf(oid) ==
    {graph.nodes[oid].children[i] : i \in DOMAIN graph.nodes[oid].children}

\* C9: in a built graph the links are mutual: a's parent is b exactly when
\* a is listed in b's children, and every parent is a node.
C9_LinksAreMutual ==
    pc = "done" =>
        /\ \A a \in NodeOids :
              graph.nodes[a].parent # None => graph.nodes[a].parent[1] \in NodeOids
        /\ \A a, b \in NodeOids :
              (graph.nodes[a].parent = Some(b)) <=> (a \in ChildrenOf(b))

RECURSIVE ReachesRoot(_, _)
\* Following parent links from the node ends at a root within the given
\* number of steps.
ReachesRoot(oid, steps) ==
    \/ graph.nodes[oid].parent = None
    \/ /\ steps > 0
       /\ graph.nodes[oid].parent[1] \in NodeOids
       /\ ReachesRoot(graph.nodes[oid].parent[1], steps - 1)

\* C10: a built graph is a forest: no node is listed in the children of two
\* nodes, no node is listed twice in one children list, and the parent links
\* from every node lead to a root without passing a node twice.
C10_GraphIsForest ==
    pc = "done" =>
        /\ \A a \in NodeOids :
              Cardinality({b \in NodeOids : a \in ChildrenOf(b)}) <= 1
        /\ \A b \in NodeOids :
              Cardinality(ChildrenOf(b)) = Len(graph.nodes[b].children)
        /\ \A a \in NodeOids : ReachesRoot(a, Cardinality(NodeOids) - 1)

\* C11: every node of a built graph is flagged is_main exactly when its OID
\* is a public commit and is_obsolete exactly when its OID is in the DAG's
\* obsolete set, whatever remove_commits is and whether or not the node's
\* object is garbage collected.
C11_FlagsFollowTheSets ==
    pc = "done" =>
        \A oid \in NodeOids :
            /\ graph.nodes[oid].is_main <=> (oid \in query_public_commits(dag))
            /\ graph.nodes[oid].is_obsolete <=> (oid \in dag.obsolete_commits)

\* An obsolete commit whose object is garbage collected is a node below a
\* head although obsolete commits were removed from the observed ones.
C11_Witness ==
    /\ pc = "done"
    /\ remove_commits
    /\ \E oid \in NodeOids :
          /\ graph.nodes[oid].object = "GarbageCollected"
          /\ graph.nodes[oid].is_obsolete
          /\ ~graph.nodes[oid].is_main
          /\ graph.nodes[oid].children # <<>>

\* The child a comes strictly before the child b in the order of the key
\* (commit time or None, OID string), read off the built graph.
ChildKeyBefore(a, b) ==
    LET gc_a == graph.nodes[a].object = "GarbageCollected"
        gc_b == graph.nodes[b].object = "GarbageCollected"
    IN  \/ gc_a /\ ~gc_b
        \/ /\ ~gc_a /\ ~gc_b
           /\ commit_times[a] < commit_times[b]
        \/ /\ (gc_a /\ gc_b) \/ (~gc_a /\ ~gc_b /\ commit_times[a] = commit_times[b])
           /\ string_less(oid_to_string(a), oid_to_string(b))

\* C12: in a built graph every children list is strictly ascending by the
\* key (commit time or None, OID string): garbage-collected children first,
\* equal times ordered by OID string, no two children with equal keys.
C12_ChildrenAreSorted ==
    pc = "done" =>
        \A b \in NodeOids :
            \A i, j \in DOMAIN graph.nodes[b].children :
                i < j => ChildKeyBefore(graph.nodes[b].children[i], graph.nodes[b].children[j])

\* A garbage-collected child is listed before a child with a smaller OID
\* and an earlier commit time.
C12_Witness ==
    /\ pc = "done"
    /\ \E b \in NodeOids :
          /\ Len(graph.nodes[b].children) = 2
          /\ graph.nodes[graph.nodes[b].children[1]].object = "GarbageCollected"
          /\ graph.nodes[b].children[1] > graph.nodes[b].children[2]
          /\ commit_times[graph.nodes[b].children[1]] > commit_times[graph.nodes[b].children[2]]

\* C13: a second build from the same inputs and the same answers of the DAG
\* gives the graph that was built (same nodes, parents and ordered
\* children), whatever order the node map and the parent sets are iterated
\* in.
C13_BuildIsDeterministic ==
    pc = "done" =>
        \A links \in LinkLists(dag, walk_nodes(dag, query_public_commits(dag),
                                               missing_commits, path_to_main_branch)) :
            make_smartlog_graph(dag, observed_commits, remove_commits, commit_times,
                                missing_commits, path_to_main_branch, links) = graph

----------------------------------------------------------------------------
(* render::split_commit_graph_by_roots *)

\* Dag::get_one_merge_base_oid: a common ancestor of the two commits, each
\* counting as its own ancestor, that no other common ancestor descends
\* from; None when there is none.  When one of the two is an ancestor of the
\* other it is the only such commit.
get_one_merge_base_oid(d, lhs_oid, rhs_oid) ==
    LET common == ({lhs_oid} \cup ancestors(d, lhs_oid))
                  \cap ({rhs_oid} \cup ancestors(d, rhs_oid))
        bases == {b \in common : \A o \in common : b \notin ancestors(d, o)}
    IN  IF bases = {} THEN None ELSE Some(CHOOSE b \in bases : TRUE)

\* Ord::cmp of two OIDs or two commit times.
cmp(lhs, rhs) ==
    IF lhs < rhs THEN "Less" ELSE IF lhs > rhs THEN "Greater" ELSE "Equal"

\* compare without the commit times: OID order unless one is the merge base.
compare_without_times(d, times, missing, lhs_oid, rhs_oid) ==
    IF lhs_oid \in missing \/ rhs_oid \in missing
    THEN cmp(lhs_oid, rhs_oid)
    ELSE LET merge_base_oid == get_one_merge_base_oid(d, lhs_oid, rhs_oid)
         IN  IF merge_base_oid = Some(lhs_oid) THEN "Less"
             ELSE IF merge_base_oid = Some(rhs_oid) THEN "Greater"
             ELSE cmp(lhs_oid, rhs_oid)

\* The closure `compare` of split_commit_graph_by_roots.
compare(d, times, missing, lhs_oid, rhs_oid) ==
    IF lhs_oid \in missing \/ rhs_oid \in missing
    THEN cmp(lhs_oid, rhs_oid)
    ELSE LET merge_base_oid == get_one_merge_base_oid(d, lhs_oid, rhs_oid)
         IN  IF merge_base_oid = Some(lhs_oid) THEN "Less"
             ELSE IF merge_base_oid = Some(rhs_oid) THEN "Greater"
             ELSE IF cmp(times[lhs_oid], times[rhs_oid]) # "Equal"
                  THEN cmp(times[lhs_oid], times[rhs_oid])
                  ELSE cmp(lhs_oid, rhs_oid)

RECURSIVE insert_tail(_, _, _, _, _)
\* The element moves towards the front of the sorted list for as long as it
\* compares Less than the element before it.
insert_tail(d, times, missing, sorted, oid) ==
    IF sorted = <<>> THEN <<oid>>
    ELSE IF compare(d, times, missing, oid, sorted[Len(sorted)]) = "Less"
         THEN Append(insert_tail(d, times, missing, SubSeq(sorted, 1, Len(sorted) - 1), oid),
                     sorted[Len(sorted)])
         ELSE Append(sorted, oid)

RECURSIVE sort_by(_, _, _, _)
\* slice::sort_by on a short slice: a stable insertion sort by `compare`.
sort_by(d, times, missing, oids) ==
    IF oids = <<>> THEN <<>>
    ELSE insert_tail(d, times, missing,
                     sort_by(d, times, missing, SubSeq(oids, 1, Len(oids) - 1)),
                     oids[Len(oids)])

\* The roots of the graph: the nodes without a parent.
roots_of(nodes) == {oid \in DOMAIN nodes : nodes[oid].parent = None}

\* root_order: the order the node map's iteration yields the roots in.
split_commit_graph_by_roots(d, times, missing, root_order) ==
    sort_by(d, times, missing, root_order)

----------------------------------------------------------------------------
(* render::get_child_output and render::get_output.  A StyledString is the *)
(* sequence of its spans; a span has its content (a glyph of the glyph     *)
(* table, a space, or the descriptors of a node), the OID of the node it   *)
(* describes (0 for a glyph) and its effect.                               *)

\* StyledString::plain of one glyph.
plain(content) == <<[content |-> content, oid |-> 0, effect |-> "none"]>>

\* The descriptors of the node (OID, relative time, branches, message).
render_node_descriptors(oid) == <<[content |-> "descriptors", oid |-> oid, effect |-> "none"]>>

set_effect(string, effect) ==
    [i \in DOMAIN string |-> [string[i] EXCEPT !.effect = effect]]

\* The cursor glyph of (is_main, is_obsolete, is_head).
cursor_glyph(is_main, is_obsolete, is_head) ==
    CASE ~is_main /\ ~is_obsolete /\ ~is_head -> "commit_visible"
      [] ~is_main /\ ~is_obsolete /\ is_head -> "commit_visible_head"
      [] ~is_main /\ is_obsolete /\ ~is_head -> "commit_obsolete"
      [] ~is_main /\ is_obsolete /\ is_head -> "commit_obsolete_head"
      [] is_main /\ ~is_obsolete /\ ~is_head -> "commit_main"
      [] is_main /\ ~is_obsolete /\ is_head -> "commit_main_head"
      [] is_main /\ is_obsolete /\ ~is_head -> "commit_main_obsolete"
      [] OTHER -> "commit_main_obsolete_head"

\* The first line of a node: cursor, space, descriptors; bold for HEAD.
first_line_of(nodes, head, current_oid) ==
    LET is_head == Some(current_oid) = head
        first_line == plain(cursor_glyph(nodes[current_oid].is_main,
                                         nodes[current_oid].is_obsolete, is_head))
                      \o plain(" ") \o render_node_descriptors(current_oid)
    IN  IF is_head THEN set_effect(first_line, "Bold") ELSE first_line

\* connector_line with the branch connector before every child.
connector_line_with_offshoot(is_last_child, last_child_line_char) ==
    plain("line_with_offshoot") \o plain("slash")

\* The line pushed before a child's output.
connector_line(is_last_child, last_child_line_char) ==
    IF is_last_child /\ last_child_line_char = None
    THEN plain("line")
    ELSE plain("line_with_offshoot") \o plain("slash")

\* A line of a child's output as it is pushed to the parent's lines.
child_line_prefixed(is_last_child, last_child_line_char, child_line) ==
    IF is_last_child
    THEN IF last_child_line_char = None
         THEN child_line
         ELSE plain(last_child_line_char[1]) \o plain(" ") \o child_line
    ELSE plain("line") \o plain(" ") \o child_line

\* The elements of a list.
Range(list) == {list[i] : i \in DOMAIN list}

RECURSIVE get_child_output(_, _, _, _, _)
RECURSIVE children_output(_, _, _, _, _, _)

\* The loop of get_child_output over the children, from child_idx on.
children_output(nodes, root_oids, head, children, child_idx, last_child_line_char) ==
    IF child_idx > Len(children) THEN <<>>
    ELSE LET child_oid == children[child_idx]
             is_last_child == child_idx = Len(children)
             child_output == get_child_output(nodes, root_oids, head, child_oid, None)
             rest == children_output(nodes, root_oids, head, children, child_idx + 1,
                                     last_child_line_char)
         IN  IF child_oid \in Range(root_oids)
             THEN rest
             ELSE <<connector_line(is_last_child, last_child_line_char)>>
                  \o [i \in DOMAIN child_output |->
                        child_line_prefixed(is_last_child, last_child_line_char,
                                            child_output[i])]
                  \o rest

\* children_in_graph keeping the first child alone.
children_in_graph_first_only(nodes, current_oid) ==
    LET children == SelectSeq(nodes[current_oid].children,
                              LAMBDA child_oid : child_oid \in DOMAIN nodes)
    IN  IF children = <<>> THEN <<>> ELSE <<Head(children)>>

\* The children of a node that are nodes of the graph.
children_in_graph(nodes, current_oid) ==
    SelectSeq(nodes[current_oid].children, LAMBDA child_oid : child_oid \in DOMAIN nodes)

get_child_output(nodes, root_oids, head, current_oid, last_child_line_char) ==
    <<first_line_of(nodes, head, current_oid)>>
    \o children_output(nodes, root_oids, head, children_in_graph(nodes, current_oid), 1,
                       last_child_line_char)

\* has_real_parent asking whether the commit is a parent of the other one.
has_real_parent_of_child(d, oid, parent_oid) == oid \in d.parents[parent_oid]

\* Whether the commit has the other commit as a parent in the DAG.
has_real_parent(d, oid, parent_oid) == parent_oid \in d.parents[oid]

\* The line get_output pushes before the output of a root, if any.
root_prefix_lines(d, root_oids, root_idx) ==
    IF d.parents[root_oids[root_idx]] # {}
    THEN IF root_idx > 1 /\ has_real_parent(d, root_oids[root_idx], root_oids[root_idx - 1])
         THEN <<plain("line")>>
         ELSE <<plain("vertical_ellipsis")>>
    ELSE IF root_idx > 1 THEN <<(<<>>)>> ELSE <<>>

\* The last_child_line_char get_output hands to the root's get_child_output.
root_last_child_line_char(d, root_oids, root_idx) ==
    IF root_idx = Len(root_oids) THEN None
    ELSE IF has_real_parent(d, root_oids[root_idx + 1], root_oids[root_idx])
         THEN Some("line")
         ELSE Some("vertical_ellipsis")

RECURSIVE get_output_from(_, _, _, _, _)
\* The loop of get_output over the roots, from root_idx on.
get_output_from(d, nodes, head, root_oids, root_idx) ==
    IF root_idx > Len(root_oids) THEN <<>>
    ELSE root_prefix_lines(d, root_oids, root_idx)
         \o get_child_output(nodes, root_oids, head, root_oids[root_idx],
                             root_last_child_line_char(d, root_oids, root_idx))
         \o get_output_from(d, nodes, head, root_oids, root_idx + 1)

get_output(d, nodes, head, root_oids) == get_output_from(d, nodes, head, root_oids, 1)

----------------------------------------------------------------------------
(* The renderer: a repository with one initial commit (the main branch),   *)
(* at most one merge commit, every commit observed, commit times that vary *)
(* and at most one commit garbage collected.                               *)

\* Number of commits of the rendered repository.
NumRenderCommits == 6

RenderCommits == 1..NumRenderCommits

\* A commit's parents: one or two of the first commit and the two commits
\* made just before it.
RenderParentChoices(c) ==
    {ps \in SUBSET ({1, c - 1, c - 2} \cap 1..(c - 1)) : Cardinality(ps) \in {1, 2}}

RECURSIVE RenderParentMaps(_)
\* The parent maps of the histories of n commits.
RenderParentMaps(n) ==
    IF n = 1 THEN {<<{}>>}
    ELSE {Append(parents, ps) : parents \in RenderParentMaps(n - 1), ps \in RenderParentChoices(n)}

\* The rendered histories: the first commit is the main branch, nothing is
\* obsolete and at most one commit is a merge commit.
RenderDags ==
    {[parents |-> parents, main_branch_commit |-> 1, obsolete_commits |-> {}] :
        parents \in {ps \in RenderParentMaps(NumRenderCommits) :
                        Cardinality({c \in RenderCommits : Cardinality(ps[c]) = 2}) <= 1}}

RenderCommitTimeMaps ==
    {[c \in RenderCommits |-> c], [c \in RenderCommits |-> NumRenderCommits + 1 - c],
     [c \in RenderCommits |-> 1]}

InitRender ==
    /\ pc = "start"
    /\ RewriteIdle
    /\ VersionIdle
    /\ CommandIdle
    /\ StatusIdle
    /\ dag \in RenderDags
    /\ observed_commits = RenderCommits
    /\ remove_commits = FALSE
    /\ commit_times \in RenderCommitTimeMaps
    /\ missing_commits \in {{}} \cup {{c} : c \in RenderCommits}
    /\ path_to_main_branch = <<>>
    /\ graph = NoGraph
    /\ root_commit_oids = <<>>
    /\ head_oid = None
    /\ lines = <<>>

SplitCommitGraphByRoots ==
    /\ pc = "done"
    /\ root_commit_oids' \in
          {split_commit_graph_by_roots(dag, commit_times, missing_commits, root_order) :
              root_order \in Orderings(roots_of(graph.nodes))}
    /\ pc' = "split"
    /\ UNCHANGED <<dag, observed_commits, remove_commits, commit_times, missing_commits,
                   path_to_main_branch, graph, head_oid, lines>>
    /\ UNCHANGED rewrite_vars_but_pc
    /\ UNCHANGED version_vars
    /\ UNCHANGED command_vars
    /\ UNCHANGED status_vars

\* HEAD is detached at no commit of the graph, or is one of its nodes.
GetOutput ==
    /\ pc = "split"
    /\ head_oid' \in OptionOf(DOMAIN graph.nodes)
    /\ lines' = get_output(dag, graph.nodes, head_oid', root_commit_oids)
    /\ pc' = "rendered"
    /\ UNCHANGED <<dag, observed_commits, remove_commits, commit_times, missing_commits,
                   path_to_main_branch, graph, root_commit_oids>>
    /\ UNCHANGED rewrite_vars_but_pc
    /\ UNCHANGED version_vars
    /\ UNCHANGED command_vars
    /\ UNCHANGED status_vars

NextRender ==
    \/ MakeSmartlogGraph
    \/ SplitCommitGraphByRoots
    \/ GetOutput

SpecRender == InitRender /\ [][NextRender]_vars

----------------------------------------------------------------------------
(* The renderer's inputs when the main branch has several commits.  The     *)
(* graph may hold adjacent main branch commits that it does not link        *)
(* (has_real_parent in get_output): the DAG's answer for a head may end     *)
(* with the public commit the path leads to.                                *)

\* The DAG's answers for a head: the path to the main branch, with or
\* without the public commit it leads to.
find_path_with_merge_base(d, public_commits, head) ==
    LET without_base == find_path_to_main_branch(d, public_commits, head)
    IN  without_base
        \cup (IF head \in public_commits THEN {}
              ELSE UNION {{Some(path[1] \cup {base}) :
                             base \in (UNION {d.parents[c] : c \in path[1]})
                                       \cap public_commits} :
                          path \in without_base \ {None}})

RECURSIVE PathAnswerChoices(_, _)
\* For every active head, one of the answers of find_path_with_merge_base.
PathAnswerChoices(d, heads) ==
    IF heads = {} THEN {<<>>}
    ELSE LET h == CHOOSE x \in heads : TRUE
         IN  {(h :> path) @@ rest :
                 path \in find_path_with_merge_base(d, query_public_commits(d), h),
                 rest \in PathAnswerChoices(d, heads \ {h})}

\* Histories without merge commits whose main branch is any of the commits.
OutputDags ==
    {[parents |-> parents, main_branch_commit |-> main, obsolete_commits |-> {}] :
        parents \in ForestParentMaps, main \in Commits}

\* The graph has been built from the DAG's answers.
InitOutput ==
    /\ pc = "done"
    /\ RewriteIdle
    /\ VersionIdle
    /\ CommandIdle
    /\ StatusIdle
    /\ dag \in OutputDags
    /\ observed_commits \in {s \in SUBSET Commits : Cardinality(s) <= MaxObserved}
    /\ remove_commits = FALSE
    /\ commit_times = [c \in Commits |-> c]
    /\ missing_commits = {}
    /\ path_to_main_branch \in
          PathAnswerChoices(dag, active_heads_of(dag, observed_commits, remove_commits))
    /\ graph \in
          {make_smartlog_graph(dag, observed_commits, remove_commits, commit_times,
                               missing_commits, path_to_main_branch, links) :
              links \in LinkLists(dag, walk_nodes(dag, query_public_commits(dag),
                                                  missing_commits, path_to_main_branch))}
    /\ root_commit_oids = <<>>
    /\ head_oid = None
    /\ lines = <<>>

NextOutput ==
    \/ SplitCommitGraphByRoots
    \/ GetOutput

SpecOutput == InitOutput /\ [][NextOutput]_vars

----------------------------------------------------------------------------
(* Properties of the root list *)

\* The place of a root in the sorted list.
RootIndex(oid) == CHOOSE i \in DOMAIN root_commit_oids : root_commit_oids[i] = oid

\* The closure `compare` on the roots of the rendered graph.
CompareRoots(lhs_oid, rhs_oid) ==
    compare(dag, commit_times, missing_commits, lhs_oid, rhs_oid)

\* C14: in the returned list a root whose commit loads comes before every
\* other root whose commit loads and whose merge base with it is the root
\* itself (the root is its ancestor).
C14_EarlierRootsFirst ==
    pc = "split" =>
        \A r1, r2 \in roots_of(graph.nodes) \ missing_commits :
            (r1 # r2 /\ get_one_merge_base_oid(dag, r1, r2) = Some(r1))
            => RootIndex(r1) < RootIndex(r2)

\* C15: on the roots of a graph `compare` is a total order: never Equal for
\* two different roots, Less one way exactly when Greater the other way,
\* and transitive.
C15_RootOrderIsTotal ==
    pc = "split" =>
        /\ \A a, b \in roots_of(graph.nodes) :
              a # b => /\ CompareRoots(a, b) \in {"Less", "Greater"}
                       /\ (CompareRoots(a, b) = "Less") <=> (CompareRoots(b, a) = "Greater")
        /\ \A a, b, c \in roots_of(graph.nodes) :
              (CompareRoots(a, b) = "Less" /\ CompareRoots(b, c) = "Less")
              => CompareRoots(a, c) = "Less"

----------------------------------------------------------------------------
(* The smartlog command: it resolves the revset to the observed commits,   *)
(* with the DAG's obsolete set swapped out when hidden commits are to be   *)
(* shown, and builds the graph.                                            *)

\* std::mem::swap written as an assignment of the second to the first.
swap_as_assignment(a, b) == <<b, b>>

\* std::mem::swap: the two values, exchanged.
swap(a, b) == <<b, a>>

\* The obsolete sets the DAG may hold after resolve_commits, which is handed
\* the DAG mutably: the set it held, or that set with the newest commit.
ObsoleteAfterResolve(obsolete) == {obsolete, obsolete \cup {NumCommits}}

\* A repository without merge commits whose DAG has just been opened.
InitCommand ==
    /\ pc = "start"
    /\ RewriteIdle
    /\ VersionIdle
    /\ dag \in {d \in Dags : d.parents \in ForestParentMaps}
    /\ observed_commits = {}
    /\ remove_commits = FALSE
    /\ commit_times = [c \in Commits |-> c]
    /\ missing_commits = {}
    /\ path_to_main_branch = <<>>
    /\ graph = NoGraph
    /\ root_commit_oids = <<>>
    /\ head_oid = None
    /\ lines = <<>>
    /\ show_hidden_commits \in BOOLEAN
    /\ old_obsolete_commits = {}
    /\ exit_code = None
    /\ StatusIdle

\* smartlog.rs:592-595.
SwapObsoleteOut ==
    /\ pc = "start"
    /\ IF show_hidden_commits
       THEN /\ dag' = [dag EXCEPT !.obsolete_commits =
                          swap(dag.obsolete_commits, old_obsolete_commits)[1]]
            /\ old_obsolete_commits' = swap(dag.obsolete_commits, old_obsolete_commits)[2]
       ELSE UNCHANGED <<dag, old_obsolete_commits>>
    /\ pc' = "swapped"
    /\ UNCHANGED <<observed_commits, remove_commits, commit_times, missing_commits,
                   path_to_main_branch, graph, root_commit_oids, head_oid, lines>>
    /\ UNCHANGED <<show_hidden_commits, exit_code>>
    /\ UNCHANGED status_vars
    /\ UNCHANGED rewrite_vars_but_pc
    /\ UNCHANGED version_vars

\* smartlog.rs:596-609: the revset resolves to a commit set, or fails and the
\* command returns exit code 1.
ResolveCommits ==
    /\ pc = "swapped"
    /\ \E obsolete \in ObsoleteAfterResolve(dag.obsolete_commits) :
          dag' = [dag EXCEPT !.obsolete_commits = obsolete]
    /\ \/ /\ observed_commits' \in {s \in SUBSET Commits : Cardinality(s) <= MaxObserved}
          /\ pc' = "resolved"
          /\ UNCHANGED exit_code
       \/ /\ pc' = "failed"
          /\ exit_code' = Some(1)
          /\ UNCHANGED observed_commits
    /\ UNCHANGED <<remove_commits, commit_times, missing_commits,
                   path_to_main_branch, graph, root_commit_oids, head_oid, lines>>
    /\ UNCHANGED <<show_hidden_commits, old_obsolete_commits>>
    /\ UNCHANGED status_vars
    /\ UNCHANGED rewrite_vars_but_pc
    /\ UNCHANGED version_vars

\* smartlog.rs:610-612.
SwapObsoleteBack ==
    /\ pc = "resolved"
    /\ IF show_hidden_commits
       THEN /\ dag' = [dag EXCEPT !.obsolete_commits =
                          swap(dag.obsolete_commits, old_obsolete_commits)[1]]
            /\ old_obsolete_commits' = swap(dag.obsolete_commits, old_obsolete_commits)[2]
       ELSE UNCHANGED <<dag, old_obsolete_commits>>
    /\ pc' = "swapped_back"
    /\ UNCHANGED <<observed_commits, remove_commits, commit_times, missing_commits,
                   path_to_main_branch, graph, root_commit_oids, head_oid, lines>>
    /\ UNCHANGED <<show_hidden_commits, exit_code>>
    /\ UNCHANGED status_vars
    /\ UNCHANGED rewrite_vars_but_pc
    /\ UNCHANGED version_vars

\* smartlog.rs:616-624: make_smartlog_graph is called with the observed
\* commits and remove_commits = !show_hidden_commits.
CallMakeSmartlogGraph ==
    /\ pc = "swapped_back"
    /\ remove_commits' = ~show_hidden_commits
    /\ \E paths \in PathChoices(dag, active_heads_of(dag, observed_commits, remove_commits')) :
         \E links \in LinkLists(dag, walk_nodes(dag, query_public_commits(dag),
                                                missing_commits, paths)) :
            /\ path_to_main_branch' = paths
            /\ graph' = make_smartlog_graph(dag, observed_commits, remove_commits',
                                            commit_times, missing_commits, paths, links)
    /\ pc' = "done"
    /\ UNCHANGED <<dag, observed_commits, commit_times, missing_commits,
                   root_commit_oids, head_oid, lines>>
    /\ UNCHANGED command_vars
    /\ UNCHANGED status_vars
    /\ UNCHANGED rewrite_vars_but_pc
    /\ UNCHANGED version_vars

NextCommand ==
    \/ SwapObsoleteOut
    \/ ResolveCommits
    \/ SwapObsoleteBack
    \/ CallMakeSmartlogGraph

SpecCommand == InitCommand /\ [][NextCommand]_vars

----------------------------------------------------------------------------
(* GitVersion: parsing the output of `git version` *)

Digits == {"0", "1", "2", "3", "4", "5", "6", "7", "8", "9"}

DigitValue ==
    [d \in Digits |->
        CASE d = "0" -> 0 [] d = "1" -> 1 [] d = "2" -> 2 [] d = "3" -> 3
          [] d = "4" -> 4 [] d = "5" -> 5 [] d = "6" -> 6 [] d = "7" -> 7
          [] d = "8" -> 8 [] d = "9" -> 9]

\* The characters str::trim removes that the texts of the model contain.
WhiteSpace == {" ", "\n"}

RECURSIVE trim_start(_)
trim_start(str) ==
    IF str # <<>> /\ Head(str) \in WhiteSpace THEN trim_start(Tail(str)) ELSE str

RECURSIVE trim_end(_)
trim_end(str) ==
    IF str # <<>> /\ str[Len(str)] \in WhiteSpace
    THEN trim_end(SubSeq(str, 1, Len(str) - 1))
    ELSE str

trim(str) == trim_end(trim_start(str))

\* str::split: the pieces between the delimiters, empty pieces included.
RECURSIVE split(_, _)
split(str, delimiters) ==
    IF \E i \in 1..Len(str) : str[i] \in delimiters
    THEN LET i == CHOOSE i \in 1..Len(str) :
                     /\ str[i] \in delimiters
                     /\ \A j \in 1..(i - 1) : str[j] \notin delimiters
         IN  <<SubSeq(str, 1, i - 1)>> \o split(SubSeq(str, i + 1, Len(str)), delimiters)
    ELSE <<str>>

\* The value of a string of digits, read left to right.
RECURSIVE parse_digits(_, _)
parse_digits(digits, value) ==
    IF digits = <<>>
    THEN value
    ELSE parse_digits(Tail(digits), value * 10 + DigitValue[Head(digits)])

\* str::parse::<isize>: an optional sign and at least one digit, nothing
\* else; None for anything else.  The texts of the model are too short to
\* leave the range of isize.
parse(str) ==
    LET digits == IF str # <<>> /\ Head(str) \in {"+", "-"} THEN Tail(str) ELSE str
    IN  IF digits = <<>> \/ \E i \in 1..Len(digits) : digits[i] \notin Digits
        THEN None
        ELSE IF Head(str) = "-"
             THEN Some(0 - parse_digits(digits, 0))
             ELSE Some(parse_digits(digits, 0))

GitVersion(major, minor, patch) ==
    [kind |-> "Ok", version |-> <<major, minor, patch>>, text |-> <<>>]

ParseGitVersionOutput(text) ==
    [kind |-> "ParseGitVersionOutput", version |-> <<>>, text |-> text]

ParseGitVersionSpecifier(text) ==
    [kind |-> "ParseGitVersionSpecifier", version |-> <<>>, text |-> text]

\* unwrap_or_default of the patch component's parse.
unwrap_or_default(parsed) == IF parsed = None THEN 0 ELSE parsed[1]

\* from_str with a patch component that has to parse, as major and minor do.
from_str_patch_must_parse(text) ==
    LET trimmed == trim(text)
        words == split(trimmed, {" ", "-"})
    IN  IF Len(words) < 3
        THEN ParseGitVersionOutput(trimmed)
        ELSE LET version_str == words[3]
                 components == split(version_str, {"."})
             IN  IF Len(components) < 3
                 THEN ParseGitVersionSpecifier(version_str)
                 ELSE IF \E i \in 1..3 : parse(components[i]) = None
                      THEN ParseGitVersionSpecifier(version_str)
                      ELSE GitVersion(parse(components[1])[1],
                                      parse(components[2])[1],
                                      parse(components[3])[1])

from_str(text) ==
    LET trimmed == trim(text)
        words == split(trimmed, {" ", "-"})
    IN  IF Len(words) < 3
        THEN ParseGitVersionOutput(trimmed)
        ELSE LET version_str == words[3]
                 components == split(version_str, {"."})
             IN  IF Len(components) < 3
                 THEN ParseGitVersionSpecifier(version_str)
                 ELSE IF parse(components[1]) = None \/ parse(components[2]) = None
                      THEN ParseGitVersionSpecifier(version_str)
                      ELSE GitVersion(parse(components[1])[1],
                                      parse(components[2])[1],
                                      unwrap_or_default(parse(components[3])))

\* The texts of tests::test_parse_git_version_output.
TestOutputs ==
    {<<"g", "i", "t", " ", "v", "e", "r", "s", "i", "o", "n", " ", "1", "2", ".", "3", "4", ".", "5", "6">>,
     <<"g", "i", "t", " ", "v", "e", "r", "s", "i", "o", "n", " ", "1", "2", ".", "3", "4", ".", "5", "6", "\n">>,
     <<"g", "i", "t", " ", "v", "e", "r", "s", "i", "o", "n", " ", "1", "2", ".", "3", "4", ".", "5", "6", ".", "7", "8", ".", "a", "b", "c", "d", "e", "f">>,
     <<"g", "i", "t", " ", "v", "e", "r", "s", "i", "o", "n", " ", "2", ".", "3", "3", ".", "0", "-", "r", "c", "0">>,
     <<"g", "i", "t", " ", "v", "e", "r", "s", "i", "o", "n", " ", "2", ".", "3", "3", ".", "G", "I", "T">>}

\* Most leading words of a generated text, and most dot-separated components
\* of its version.
MaxLeadingWords == 2

MaxComponents == 4

LeadingWords == {<<"g", "i", "t">>, <<"v", "e", "r", "s", "i", "o", "n">>}

\* An empty component, a number and a component that is not a number.
VersionComponents == {<<>>, <<"3", "3">>, <<"G", "I", "T">>}

SeqsUpTo(S, n) == UNION {[1..k -> S] : k \in 0..n}

\* The pieces joined by the separator.
RECURSIVE join(_, _)
join(pieces, separator) ==
    IF pieces = <<>>
    THEN <<>>
    ELSE IF Len(pieces) = 1
         THEN pieces[1]
         ELSE pieces[1] \o separator \o join(Tail(pieces), separator)

\* Texts a `git version` could print: leading words, then a version of
\* dot-separated components, between optional white space and with an
\* optional release-candidate suffix or end of line.
GeneratedOutputs ==
    {before \o join(leading \o <<join(components, <<".">>)>>, separator) \o after :
        before \in {<<>>, <<" ">>},
        leading \in SeqsUpTo(LeadingWords, MaxLeadingWords),
        components \in SeqsUpTo(VersionComponents, MaxComponents) \ {<<>>},
        separator \in {<<" ">>, <<"-">>},
        after \in {<<>>, <<"\n">>, <<"-", "r", "c", "0">>}}

InitVersion ==
    /\ pc = "start"
    /\ output \in TestOutputs \cup GeneratedOutputs
    /\ git_version = NoVersion
    /\ RewriteIdle
    /\ SmartlogIdle
    /\ CommandIdle
    /\ StatusIdle

FromStr ==
    /\ pc = "start"
    /\ git_version' = from_str(output)
    /\ pc' = "done"
    /\ UNCHANGED output
    /\ UNCHANGED rewrite_vars_but_pc
    /\ UNCHANGED smartlog_vars
    /\ UNCHANGED command_vars
    /\ UNCHANGED status_vars

NextVersion == FromStr

SpecVersion == InitVersion /\ [][NextVersion]_vars

----------------------------------------------------------------------------
(* Repo::get_status: the output of                                         *)
(* `git status --porcelain=v2 --untracked-files=no -z` is cut into the     *)
(* lines of its entries.  A byte is its number: 0 is NUL, 49 is '1',       *)
(* 50 is '2', 117 is 'u'.                                                  *)

MaxStatusLen == 5

\* The bytes of the outputs: NUL, the three known prefixes and a letter.
StatusBytes == {0, 49, 50, 117, 97}

\* Where the iterator meets its first NUL byte; past the end when it has none.
first_null(bytes) ==
    IF \E i \in DOMAIN bytes : bytes[i] = 0
    THEN CHOOSE i \in DOMAIN bytes : bytes[i] = 0 /\ \A j \in 1..(i - 1) : bytes[j] # 0
    ELSE Len(bytes) + 1

\* by_ref().take_while(not_null_terminator): the bytes before the first NUL.
take_while_not_null(bytes) == SubSeq(bytes, 1, first_null(bytes) - 1)

\* take_while handing the NUL byte it stopped at back to the iterator.
after_take_while_keeping_null(bytes) ==
    IF first_null(bytes) > Len(bytes) THEN <<>>
    ELSE SubSeq(bytes, first_null(bytes), Len(bytes))

\* What take_while leaves in the iterator: it has consumed the bytes it
\* yielded and the NUL byte it stopped at.
after_take_while(bytes) ==
    IF first_null(bytes) >= Len(bytes) THEN <<>>
    ELSE SubSeq(bytes, first_null(bytes) + 1, Len(bytes))

\* The line of the entry at the front of the iterator, for the prefixes
\* '1', 'u' and '2'.
status_line(bytes) ==
    IF Head(bytes) \in {49, 117}
    THEN take_while_not_null(bytes)
    ELSE Append(take_while_not_null(bytes), 0)
         \o take_while_not_null(after_take_while(bytes))

\* The iterator after that line was taken.
bytes_after_status_line(bytes) ==
    IF Head(bytes) \in {49, 117}
    THEN after_take_while(bytes)
    ELSE after_take_while(after_take_while(bytes))

StatusError(kind, prefix) == [kind |-> kind, entries |-> <<>>, prefix |-> prefix]

\* The output of the git call has been read.
InitStatus ==
    /\ pc = "parsing"
    /\ status_bytes \in SeqsUpTo(StatusBytes, MaxStatusLen)
    /\ statuses = <<>>
    /\ status_result = [kind |-> "none", entries |-> <<>>, prefix |-> None]
    /\ RewriteIdle
    /\ SmartlogIdle
    /\ VersionIdle
    /\ CommandIdle

\* One iteration of the loop: the prefix is peeked at, the line is taken
\* and converted to a StatusEntry, which may fail.
GetStatusIteration ==
    /\ pc = "parsing"
    /\ status_bytes # <<>>
    /\ LET line_prefix == Head(status_bytes)
       IN  IF line_prefix \in {49, 117, 50}
           THEN /\ status_bytes' = bytes_after_status_line(status_bytes)
                /\ \/ /\ statuses' = Append(statuses, status_line(status_bytes))
                      /\ UNCHANGED <<pc, status_result>>
                   \/ /\ status_result' = StatusError("ParseStatusEntry", None)
                      /\ pc' = "returned"
                      /\ UNCHANGED statuses
           ELSE /\ status_result' = StatusError("UnknownStatusLinePrefix", Some(line_prefix))
                /\ pc' = "returned"
                /\ UNCHANGED <<status_bytes, statuses>>
    /\ UNCHANGED rewrite_vars_but_pc
    /\ UNCHANGED smartlog_vars
    /\ UNCHANGED version_vars
    /\ UNCHANGED command_vars

\* The iterator is empty: the snapshot is created, which may fail, and the
\* entries are returned.
GetStatusReturn ==
    /\ pc = "parsing"
    /\ status_bytes = <<>>
    /\ \/ status_result' = [kind |-> "Ok", entries |-> statuses, prefix |-> None]
       \/ status_result' = StatusError("CreateSnapshot", None)
    /\ pc' = "returned"
    /\ UNCHANGED <<status_bytes, statuses>>
    /\ UNCHANGED rewrite_vars_but_pc
    /\ UNCHANGED smartlog_vars
    /\ UNCHANGED version_vars
    /\ UNCHANGED command_vars

NextStatus ==
    \/ GetStatusIteration
    \/ GetStatusReturn

\* The loop is sequential code: an iteration that can run does run.
FairSpecStatus == InitStatus /\ [][NextStatus]_vars /\ WF_vars(NextStatus)

C17_TouchedPathSeesEveryChange ==
    \A path \in Paths :
        contains_touched_path(patch_commit, path) =
            IF Len(patch_commit.parents) # 1
            THEN None
            ELSE Some(patch_commit.tree[path] # patch_commit.parents[1].tree[path])

\* The text without the white space around it.
Trimmed(text) ==
    LET inner == {i \in 1..Len(text) : text[i] \notin WhiteSpace}
    IN  IF inner = {}
        THEN <<>>
        ELSE SubSeq(text,
                    CHOOSE i \in inner : \A j \in inner : i <= j,
                    CHOOSE i \in inner : \A j \in inner : j <= i)

\* Where the text has one of the delimiters.
Cuts(text, delimiters) == {i \in 1..Len(text) : text[i] \in delimiters}

\* The k-th delimiter's position: 0 before the first, past the end after the last.
Cut(text, delimiters, k) ==
    IF k = 0
    THEN 0
    ELSE IF k > Cardinality(Cuts(text, delimiters))
         THEN Len(text) + 1
         ELSE CHOOSE i \in Cuts(text, delimiters) :
                  Cardinality({j \in Cuts(text, delimiters) : j < i}) = k - 1

\* The k-th of the pieces the delimiters cut the text into.
Piece(text, delimiters, k) ==
    SubSeq(text, Cut(text, delimiters, k - 1) + 1, Cut(text, delimiters, k) - 1)

NumPieces(text, delimiters) == Cardinality(Cuts(text, delimiters)) + 1

\* A decimal number, with or without a sign.
Numeric(text) ==
    \/ /\ text # <<>>
       /\ \A i \in 1..Len(text) : text[i] \in Digits
    \/ /\ Len(text) > 1
       /\ text[1] \in {"+", "-"}
       /\ \A i \in 2..Len(text) : text[i] \in Digits

RECURSIVE PowerOfTen(_)
PowerOfTen(n) == IF n = 0 THEN 1 ELSE 10 * PowerOfTen(n - 1)

RECURSIVE SumOfDigits(_, _)
SumOfDigits(text, i) ==
    IF i > Len(text)
    THEN 0
    ELSE (IF text[i] \in Digits THEN DigitValue[text[i]] * PowerOfTen(Len(text) - i) ELSE 0)
         + SumOfDigits(text, i + 1)

\* The number a numeric text denotes.
NumberOf(text) ==
    IF text[1] = "-" THEN 0 - SumOfDigits(text, 1) ELSE SumOfDigits(text, 1)

\* C18: parsing takes the third of the words that spaces and '-' cut the
\* trimmed output into, and answers the numbers of that word's first three
\* dot-separated components, 0 for a patch component that is not a number;
\* fewer than three words fail with ParseGitVersionOutput, fewer than three
\* components or a major or minor that is not a number with
\* ParseGitVersionSpecifier.  "2.33.GIT" and "2.33.0-rc0" give (2, 33, 0) and
\* "12.34.56.78.abcdef" gives (12, 34, 56).
C18_GitVersionParsing ==
    pc = "done" =>
        /\ LET trimmed == Trimmed(output)
           IN  IF NumPieces(trimmed, {" ", "-"}) < 3
               THEN git_version.kind = "ParseGitVersionOutput"
               ELSE LET version_str == Piece(trimmed, {" ", "-"}, 3)
                        major == Piece(version_str, {"."}, 1)
                        minor == Piece(version_str, {"."}, 2)
                        patch == Piece(version_str, {"."}, 3)
                    IN  IF \/ NumPieces(version_str, {"."}) < 3
                           \/ ~Numeric(major)
                           \/ ~Numeric(minor)
                        THEN git_version.kind = "ParseGitVersionSpecifier"
                        ELSE /\ git_version.kind = "Ok"
                             /\ git_version.version =
                                   <<NumberOf(major), NumberOf(minor),
                                     IF Numeric(patch) THEN NumberOf(patch) ELSE 0>>
        /\ output = <<"g", "i", "t", " ", "v", "e", "r", "s", "i", "o", "n", " ", "2", ".", "3", "3", ".", "G", "I", "T">> => git_version.version = <<2, 33, 0>>
        /\ output = <<"g", "i", "t", " ", "v", "e", "r", "s", "i", "o", "n", " ", "2", ".", "3", "3", ".", "0", "-", "r", "c", "0">> => git_version.version = <<2, 33, 0>>
        /\ output = <<"g", "i", "t", " ", "v", "e", "r", "s", "i", "o", "n", " ", "1", "2", ".", "3", "4", ".", "5", "6", ".", "7", "8", ".", "a", "b", "c", "d", "e", "f">> => git_version.version = <<12, 34, 56>>

\* The text "git version 2.33.GIT" was parsed.
C18_Witness ==
    /\ pc = "done"
    /\ output = <<"g", "i", "t", " ", "v", "e", "r", "s", "i", "o", "n", " ", "2", ".", "3", "3", ".", "G", "I", "T">>
    /\ git_version = GitVersion(2, 33, 0)

\* C20: when the patch commit's tree equals its only parent's tree, so that
\* the patch touches no path, cherry_pick_fast returns the target commit's
\* tree, whatever the target and whatever reuse_parent_tree_if_possible is.
C20_EmptyPatchGivesTargetTree ==
    (/\ pc = "done"
     /\ Len(patch_commit.parents) = 1
     /\ patch_commit.tree = patch_commit.parents[1].tree)
        => /\ result.kind = "Ok"
           /\ result.tree = Some(target_commit.tree)

\* An empty patch was applied, without the short cut, onto a target whose
\* tree is not the tree of the patch commit's parent.
C20_Witness ==
    /\ pc = "done"
    /\ Len(patch_commit.parents) = 1
    /\ patch_commit.tree = patch_commit.parents[1].tree
    /\ patch_commit.tree # target_commit.tree
    /\ target_commit.tree # EmptyTree
    /\ options.reuse_parent_tree_if_possible
    /\ result.calls # <<>>
    /\ result.tree = Some(target_commit.tree)

\* C21: after an amend from the index, the resulting tree has at every listed
\* path whose index entry has a non-zero OID exactly that entry's OID and
\* mode, and no entry at every listed path the index has no entry for; so
\* when the index entry of every listed path is the amended commit's entry,
\* the resulting tree is the commit's tree.
C21_IndexDecidesListedPaths ==
    (pc = "done" /\ amend_opts.kind = "FromIndex" /\ result.tree # None)
    => /\ \A p \in amend_opts.paths :
             /\ (get_entry(repo_index, p) # None /\ get_entry(repo_index, p)[1].oid # 0)
                   => result.tree[1][p] = get_entry(repo_index, p)
             /\ get_entry(repo_index, p) = None => result.tree[1][p] = None
       /\ (\A p \in amend_opts.paths : get_entry(repo_index, p) = patch_commit.tree[p])
             => result.tree[1] = patch_commit.tree

\* One listed path is staged with another blob than the commit's, the other
\* listed path is in the commit but no longer in the index.
C21_Witness ==
    /\ pc = "done"
    /\ amend_opts.kind = "FromIndex"
    /\ amend_opts.paths = Paths
    /\ patch_commit.tree["initial.txt"] # None
    /\ patch_commit.tree["test1.txt"] # None
    /\ get_entry(repo_index, "initial.txt") = None
    /\ get_entry(repo_index, "test1.txt") # None
    /\ get_entry(repo_index, "test1.txt")[1].oid # 0
    /\ get_entry(repo_index, "test1.txt") # patch_commit.tree["test1.txt"]
    /\ result.tree # None
    /\ result.tree[1]["initial.txt"] = None
    /\ result.tree[1]["test1.txt"] = get_entry(repo_index, "test1.txt")

\* The commits of the DAG's answer for an active head: its path to the main
\* branch, the head alone when there is no path.
PathOrHead(h) ==
    IF path_to_main_branch[h] = None THEN {h} ELSE path_to_main_branch[h][1]

\* C22: the nodes of a built graph are exactly the commits on the paths to
\* the main branch of the active heads, a head standing for itself when the
\* DAG gives no path; a commit among them whose object is missing is a
\* GarbageCollected node of the built graph, every other one a Commit node.
C22_NodesAreThePaths ==
    pc = "done" =>
        /\ DOMAIN path_to_main_branch =
              active_heads_of(dag, observed_commits, remove_commits)
        /\ NodeOids = UNION {PathOrHead(h) : h \in DOMAIN path_to_main_branch}
        /\ \A oid \in NodeOids :
              graph.nodes[oid].object =
                  IF oid \in missing_commits THEN "GarbageCollected" ELSE "Commit"

\* One head has no path to the main branch; another head has a path of
\* several commits, one of which, not the head, has been garbage collected.
C22_Witness ==
    /\ pc = "done"
    /\ \E h \in DOMAIN path_to_main_branch :
          /\ path_to_main_branch[h] = None
          /\ h \in NodeOids
    /\ \E h \in DOMAIN path_to_main_branch :
          /\ path_to_main_branch[h] # None
          /\ \E oid \in path_to_main_branch[h][1] \ {h} :
                /\ oid \in missing_commits
                /\ graph.nodes[oid].object = "GarbageCollected"

\* The order of two different roots by OID alone.
ByOid(a, b) == IF a < b THEN "Less" ELSE "Greater"

RootLine(oid) ==
    CHOOSE i \in DOMAIN lines : Len(lines[i]) = 3 /\ lines[i][3].oid = oid

\* The line ends with the descriptors of a node.
IsNodeLine(line) == line # <<>> /\ line[Len(line)].oid # 0

\* C24: before the own line of a root with parents in the DAG there is
\* exactly one prefix line: the vertical line when the root before it in the
\* list is one of its parents in the DAG, else the vertical ellipsis (also
\* for the first root).  Before the own line of a root without parents there
\* is one blank line when it is not the first root, and nothing when it is.
C24_RootPrefix ==
    pc = "rendered" =>
        \A k \in DOMAIN root_commit_oids :
            LET root == root_commit_oids[k]
                i == RootLine(root)
            IN  /\ \E j \in DOMAIN lines : Len(lines[j]) = 3 /\ lines[j][3].oid = root
                /\ IF dag.parents[root] # {}
                   THEN /\ i > 1
                        /\ lines[i - 1] =
                              IF k > 1 /\ root_commit_oids[k - 1] \in dag.parents[root]
                              THEN plain("line")
                              ELSE plain("vertical_ellipsis")
                        /\ IF k = 1 THEN i = 2 ELSE i > 2 /\ IsNodeLine(lines[i - 2])
                   ELSE IF k > 1
                        THEN /\ i > 2
                             /\ lines[i - 1] = <<>>
                             /\ IsNodeLine(lines[i - 2])
                        ELSE i = 1

\* Two roots were rendered: a main branch commit after a vertical ellipsis
\* and then, after a vertical line, the main branch commit whose parent it is.
C24_Witness ==
    /\ pc = "rendered"
    /\ Len(root_commit_oids) = 2
    /\ dag.parents[root_commit_oids[1]] # {}
    /\ root_commit_oids[1] \in dag.parents[root_commit_oids[2]]
    /\ lines[1] = plain("vertical_ellipsis")
    /\ RootLine(root_commit_oids[1]) = 2
    /\ lines[RootLine(root_commit_oids[2]) - 1] = plain("line")

\* The last_child_line_char a node is rendered with: what get_output hands
\* down for a root, None for every other node.
LastChildLineCharOf(oid) ==
    IF oid \in Range(root_commit_oids)
    THEN root_last_child_line_char(dag, root_commit_oids,
                                   CHOOSE k \in DOMAIN root_commit_oids :
                                       root_commit_oids[k] = oid)
    ELSE None

\* The lines get_child_output returns for a node of the rendered graph.
OutputOf(oid) ==
    get_child_output(graph.nodes, root_commit_oids, head_oid, oid, LastChildLineCharOf(oid))

RECURSIVE ConnectorIndex(_, _)
\* Where, among the lines of a node, the line before its k-th child is: after
\* the node's own line and the lines of the children before.
ConnectorIndex(oid, k) ==
    IF k = 1 THEN 2
    ELSE ConnectorIndex(oid, k - 1) + 1
         + Len(get_child_output(graph.nodes, root_commit_oids, head_oid,
                                graph.nodes[oid].children[k - 1], None))

\* The lines of a root are a stretch of the returned lines.
RootOutputIsInLines ==
    \A root \in Range(root_commit_oids) :
        SubSeq(lines, RootLine(root), RootLine(root) + Len(OutputOf(root)) - 1)
            = OutputOf(root)

\* The line after the line before the k-th child is the child's own line.
ChildLineFollows(oid, k) ==
    LET child_line == OutputOf(oid)[ConnectorIndex(oid, k) + 1]
    IN  /\ IsNodeLine(child_line)
        /\ child_line[Len(child_line)].oid = graph.nodes[oid].children[k]

\* C25 as claimed: the line before the own lines of every child that is not
\* a root is the branch connector, line_with_offshoot and slash, for the
\* last child as for the others and with or without a last_child_line_char.
C25_ConnectorBeforeEveryChild ==
    pc = "rendered" =>
        /\ RootOutputIsInLines
        /\ \A oid \in NodeOids : \A k \in DOMAIN graph.nodes[oid].children :
              graph.nodes[oid].children[k] \notin Range(root_commit_oids)
              => /\ ChildLineFollows(oid, k)
                 /\ OutputOf(oid)[ConnectorIndex(oid, k)] =
                       plain("line_with_offshoot") \o plain("slash")

\* C25, amended: the line before the own lines of every child that is not a
\* root is the branch connector, line_with_offshoot and slash, except before
\* the last child of a node rendered without a last_child_line_char, where
\* it is the plain vertical line.
C25_ConnectorOrLine ==
    pc = "rendered" =>
        /\ RootOutputIsInLines
        /\ \A oid \in NodeOids : \A k \in DOMAIN graph.nodes[oid].children :
              graph.nodes[oid].children[k] \notin Range(root_commit_oids)
              => /\ ChildLineFollows(oid, k)
                 /\ OutputOf(oid)[ConnectorIndex(oid, k)] =
                       IF k = Len(graph.nodes[oid].children) /\ LastChildLineCharOf(oid) = None
                       THEN plain("line")
                       ELSE plain("line_with_offshoot") \o plain("slash")

\* A root that is not the last one has a child, and a node rendered without
\* a last_child_line_char has two children.
C25_Witness ==
    /\ pc = "rendered"
    /\ \E oid \in NodeOids :
          /\ LastChildLineCharOf(oid) # None
          /\ Len(graph.nodes[oid].children) >= 1
          /\ OutputOf(oid)[2] = plain("line_with_offshoot") \o plain("slash")
    /\ \E oid \in NodeOids :
          /\ LastChildLineCharOf(oid) = None
          /\ Len(graph.nodes[oid].children) = 2
          /\ OutputOf(oid)[2] = plain("line_with_offshoot") \o plain("slash")
          /\ OutputOf(oid)[ConnectorIndex(oid, 2)] = plain("line")

\* The obsolete set the command holds: in its local while the revset is
\* resolved with hidden commits shown, in the DAG otherwise.
HeldObsoleteCommits ==
    IF show_hidden_commits /\ pc \in {"swapped", "resolved"}
    THEN old_obsolete_commits
    ELSE dag.obsolete_commits

\* C26: with show_hidden_commits set, no step of a run in which the
\* resolution succeeds changes the obsolete set the command holds, so the
\* DAG handed to make_smartlog_graph and render_graph has the obsolete set
\* it had before the resolution; the builder is called with remove_commits
\* false, walks from the active heads of all observed commits, and flags
\* as obsolete exactly the nodes of that set.
C26_ObsoleteSetRestored ==
    [][show_hidden_commits =>
         /\ pc' # "failed" => HeldObsoleteCommits' = HeldObsoleteCommits
         /\ pc' = "done" =>
              /\ dag'.obsolete_commits = HeldObsoleteCommits
              /\ remove_commits' = FALSE
              /\ DOMAIN path_to_main_branch' =
                    query_active_heads(dag', query_public_commits(dag'), observed_commits')
              /\ \A oid \in DOMAIN graph'.nodes :
                    graph'.nodes[oid].is_obsolete = (oid \in HeldObsoleteCommits)]_vars

\* With hidden commits shown, the resolution changed the emptied obsolete
\* set of the DAG, and the built graph shows an observed obsolete commit.
C26_Witness ==
    /\ pc = "done"
    /\ show_hidden_commits
    /\ old_obsolete_commits # {}
    /\ old_obsolete_commits # dag.obsolete_commits
    /\ \E oid \in observed_commits \cap dag.obsolete_commits :
          /\ oid \in DOMAIN graph.nodes
          /\ graph.nodes[oid].is_obsolete

\* C27: in every built graph, every OID listed in a node's children list is
\* a node of the graph that is not on the main branch and has a parent, so
\* it is no root: get_child_output's filter on the nodes of the graph drops
\* no child, and no child is skipped as a root.
C27_NoChildIsARoot ==
    pc \in {"done", "split", "rendered"} =>
        \A oid \in NodeOids :
            /\ children_in_graph(graph.nodes, oid) = graph.nodes[oid].children
            /\ \A child_oid \in Range(graph.nodes[oid].children) :
                  /\ child_oid \in NodeOids
                  /\ ~graph.nodes[child_oid].is_main
                  /\ graph.nodes[child_oid].parent # None
                  /\ child_oid \notin roots_of(graph.nodes)
                  /\ child_oid \notin Range(root_commit_oids)

\* A rendered graph in which a node with a child is also the parent, in the
\* DAG, of a main node.
C27_Witness ==
    /\ pc = "rendered"
    /\ \E oid, parent_oid \in NodeOids :
          /\ graph.nodes[oid].is_main
          /\ parent_oid \in dag.parents[oid]
          /\ graph.nodes[parent_oid].children # <<>>

RECURSIVE ReachableByChildren(_)
\* The nodes reached from the given ones by following children lists.
ReachableByChildren(oids) ==
    LET next == oids \cup UNION {Range(graph.nodes[oid].children) : oid \in oids}
    IN  IF next = oids THEN oids ELSE ReachableByChildren(next)

\* The lines of the output that are the own line of the node.
NodeLinesOf(oid) ==
    {i \in DOMAIN lines : IsNodeLine(lines[i]) /\ lines[i][Len(lines[i])].oid = oid}

RECURSIVE NumVisits(_)
RECURSIVE NumVisitsOfAll(_)
\* How many calls of get_child_output the call for the node amounts to: its
\* own and those for its children.
NumVisits(oid) == 1 + NumVisitsOfAll(graph.nodes[oid].children)

NumVisitsOfAll(oids) ==
    IF oids = <<>> THEN 0 ELSE NumVisits(Head(oids)) + NumVisitsOfAll(Tail(oids))

\* C28: every node of the graph is a root or reached from a root by
\* following children lists, every node has at least one own line in the
\* rendered output, and the output has as many node lines as get_child_output
\* has visits: one for each root and one for each child of a visited node.
C28_EveryNodeRendered ==
    pc = "rendered" =>
        /\ ReachableByChildren(Range(root_commit_oids)) = NodeOids
        /\ \A oid \in NodeOids : NodeLinesOf(oid) # {}
        /\ \A i \in DOMAIN lines :
              \A k \in 1..(Len(lines[i]) - 1) : lines[i][k].oid = 0
        /\ Cardinality({i \in DOMAIN lines : IsNodeLine(lines[i])})
              = NumVisitsOfAll(root_commit_oids)

\* A rendered graph of two roots, with a node that is no root and has two
\* children, and a merge commit that is rendered under each of its parents.
C28_Witness ==
    /\ pc = "rendered"
    /\ Len(root_commit_oids) >= 2
    /\ \E oid \in NodeOids \ Range(root_commit_oids) : Len(graph.nodes[oid].children) >= 2
    /\ \E oid \in NodeOids : Cardinality(NodeLinesOf(oid)) >= 2

\* The commits dehydrate_commit creates for the commit to amend.
DehydratedCommits ==
    {w.object : w \in {x \in dehydrate_commit_writes("parent_commit", patch_commit, TRUE) :
                          x.object[1] = "commit"}}

\* C29 as claimed: in a repository without a working copy every call of
\* amend_fast, from the index or from the working copy, fails with
\* NoWorkingCopyPath and returns no tree, and the dehydrated commits it
\* created are in the object store.
C29_BareRepositoryFails ==
    (pc = "done" /\ ~working_copy.exists) =>
        /\ result.kind = "NoWorkingCopyPath"
        /\ result.tree = None
        /\ DehydratedCommits \subseteq objects

\* C29, amended: in a repository without a working copy, amend_fast of a
\* commit with at most one parent fails with NoWorkingCopyPath and returns
\* no tree, for both option variants, and the dehydrated commits it created
\* are in the object store; for a commit with two or more parents it fails
\* with GetPatch before it creates any object.
C29_BareRepositoryFailsAfterGetPatch ==
    (pc = "done" /\ ~working_copy.exists) =>
        IF Len(patch_commit.parents) >= 2
        THEN /\ result.kind = "GetPatch"
             /\ result.tree = None
             /\ objects = commit_objects("parent_commit")
        ELSE /\ result.kind = "NoWorkingCopyPath"
             /\ result.tree = None
             /\ DehydratedCommits # {}
             /\ DehydratedCommits \subseteq objects
             /\ DehydratedCommits \cap commit_objects("parent_commit") = {}

\* A commit with one parent amended from the index, with a path listed,
\* in a repository without a working copy.
C29_Witness ==
    /\ pc = "done"
    /\ ~working_copy.exists
    /\ amend_opts.kind = "FromIndex"
    /\ amend_opts.paths # {}
    /\ Len(patch_commit.parents) = 1
    /\ result.kind = "NoWorkingCopyPath"
    /\ Cardinality(DehydratedCommits) = 2
    /\ DehydratedCommits \subseteq objects

\* The places of the NUL bytes of a byte string.
NullsOf(bytes) == {i \in DOMAIN bytes : bytes[i] = 0}

\* The n-th NUL byte of a byte string that has that many.
NthNull(bytes, n) ==
    CHOOSE i \in NullsOf(bytes) : Cardinality({j \in NullsOf(bytes) : j <= i}) = n

\* The iteration took the bytes up to the n-th NUL byte of the input that
\* was left, all of them but that NUL byte being the line of the entry.
TookUpToNull(n) ==
    /\ Cardinality(NullsOf(status_bytes)) >= n
    /\ status_bytes' = SubSeq(status_bytes, NthNull(status_bytes, n) + 1, Len(status_bytes))
    /\ pc' = "parsing" =>
          statuses' = Append(statuses, SubSeq(status_bytes, 1, NthNull(status_bytes, n) - 1))

\* The same, with the end of the input standing in for a NUL byte that is
\* not there; after the first field of a line with prefix '2' there is a NUL
\* byte in the line even when the input had none.
FieldEnd(bytes, from) ==
    IF \E i \in NullsOf(bytes) : i >= from
    THEN CHOOSE i \in NullsOf(bytes) : i >= from /\ \A j \in NullsOf(bytes) : j >= from => i <= j
    ELSE Len(bytes) + 1

TookUpToNullOrEnd(n) ==
    LET first_end == FieldEnd(status_bytes, 1)
        second_end == FieldEnd(status_bytes, first_end + 1)
        line == IF n = 1
                THEN SubSeq(status_bytes, 1, first_end - 1)
                ELSE SubSeq(status_bytes, 1, first_end - 1) \o <<0>>
                     \o SubSeq(status_bytes, first_end + 1, second_end - 1)
        last == IF n = 1 THEN first_end ELSE second_end
    IN  /\ status_bytes' = SubSeq(status_bytes, last + 1, Len(status_bytes))
        /\ pc' = "parsing" => statuses' = Append(statuses, line)

UnknownPrefixFails ==
    /\ pc' = "returned"
    /\ status_result'.kind = "UnknownStatusLinePrefix"
    /\ status_result'.prefix = Some(Head(status_bytes))
    /\ status_result'.entries = <<>>

\* C30 as claimed: the loop ends on every byte string; every iteration takes
\* at least one byte; a line with prefix '1' or 'u' is the bytes up to the
\* next NUL byte, a line with prefix '2' the bytes up to the second next NUL
\* byte with the first one inside the line; any other prefix makes the call
\* fail with UnknownStatusLinePrefix and no entries.
C30_StatusRecords ==
    /\ [][(pc = "parsing" /\ status_bytes # <<>>) =>
            /\ Head(status_bytes) \in {49, 117, 50} => Len(status_bytes') < Len(status_bytes)
            /\ Head(status_bytes) \in {49, 117} => TookUpToNull(1)
            /\ Head(status_bytes) = 50 => TookUpToNull(2)
            /\ Head(status_bytes) \notin {49, 117, 50} => UnknownPrefixFails]_vars
    /\ <>(pc = "returned")

\* C30, amended: as claimed, but a field that no NUL byte ends runs to the
\* end of the input, and the line of prefix '2' has a NUL byte after its
\* first field also when the input ended there.
C30_StatusRecordsOrEndOfInput ==
    /\ [][(pc = "parsing" /\ status_bytes # <<>>) =>
            /\ Head(status_bytes) \in {49, 117, 50} => Len(status_bytes') < Len(status_bytes)
            /\ Head(status_bytes) \in {49, 117} => TookUpToNullOrEnd(1)
            /\ Head(status_bytes) = 50 => TookUpToNullOrEnd(2)
            /\ Head(status_bytes) \notin {49, 117, 50} => UnknownPrefixFails]_vars
    /\ <>(pc = "returned")

\* The call returned two entries: one of prefix '2' with the NUL byte
\* after its first field, and one of prefix '1'.
C30_Witness ==
    /\ pc = "returned"
    /\ status_result.kind = "Ok"
    /\ Len(status_result.entries) = 2
    /\ status_result.entries[1] = <<50, 0>>
    /\ status_result.entries[2] = <<49>>

====
